---- MODULE Spec2Model ----
(***************************************************************************)
(* Model of the fishing automation state machine of pixel-bot-go          *)
(* (domain/fishing/fsm.go): the event channel, the single worker          *)
(* goroutine running loop() and transition(), the two time.AfterFunc      *)
(* timers with their callback goroutines, and the callers of the public   *)
(* event-sender methods.                                                  *)
(*                                                                         *)
(* Time is counted in units of 500 ms.                                    *)
(***************************************************************************)
EXTENDS Integers, Sequences, FiniteSets, TLC

VARIABLES
    state,          \* f.state
    events,         \* f.events: the buffered channel, oldest event first
    listeners,      \* f.listeners, in registration order
    coordX, coordY, \* f.coordX, f.coordY
    coordSet,       \* f.coordSet
    cooldownUntil,  \* f.cooldownUntil: Zero, or the units left until that instant
    searchTimer,    \* f.searchTimer: NoTimer, or the units left (0: expired)
    cooldownTimer,  \* f.cooldownTimer: NoTimer, or the units left (0: expired)
    searchCb,       \* the search timer's callback goroutine has started and not yet run
    cooldownCb,     \* the cooldown timer's callback goroutine has started and not yet run
    biteDetector,   \* f.biteDetector: NoDetector or the detector's fields
    cfg,            \* f.cfg: NilCfg or the configuration
    actions,        \* f.actions: which callbacks are non-nil
    pc,             \* the worker: "idle" (receiving) or "notify" (inside transition)
    trPrev, trNext, \* transition()'s locals prev and next while it notifies
    li,             \* index of the next listener the worker calls
    fired,          \* side-effect goroutines started while handling the current event
    calls,          \* listener calls made while handling the current event
    bd,             \* a BiteDetector under test: the fields FeedFrame reads and writes
    ref,            \* a BiteDetector constructed when bd was last Reset, fed the same frames
    hist,           \* the frames fed since then, with the results of bd and of ref
    sg,             \* MultiScaleMatchParallel's scale generation: opts and the loop's locals
    ms,             \* one MultiScaleMatchParallel call: its locals and its goroutines
    tc,             \* tmplCacheByDim and the goroutines inside getScaledTemplatePrecompFromBase
    nc,             \* one call of a detection entry point: its arguments and its result
    roi,            \* one call of ExtractROI: its arguments and its result
    fp,             \* the FSMPresenter, its view's label and the states reported to it
    fw,             \* the focus watcher of the capture presenter and what it polls
    cl              \* Close: whether f.events is closed, and who ran into it

\* the variables of the capture package
captureVars == <<sg, ms, tc, nc>>

\* the variables of the ui packages
uiVars == <<roi, fp, fw>>

vars == <<state, events, listeners, coordX, coordY, coordSet, cooldownUntil,
          searchTimer, cooldownTimer, searchCb, cooldownCb, biteDetector,
          cfg, actions, bd, ref, hist, captureVars, uiVars, cl, pc, trPrev, trNext, li, fired, calls>>

----------------------------------------------------------------------------
(* Bounds of the model *)

\* capacity of the event channel (make(chan interface{}, 64) in the program)
QueueCap == 2

\* number of listeners that get registered
MaxListeners == 2

----------------------------------------------------------------------------
(* Program constants, in units of 500 ms *)

\* time.Second
Second == 2

\* 5*time.Second, the search timeout
SearchTimeout == 10

\* 500*time.Millisecond, added to the cooldown when reeling
ReelDelay == 1

\* cooldown := time.Second, the default cooldown of NewFSM
DefaultCooldown == 2

\* MaxCastDurationSeconds of config.DefaultConfig()
DefaultMaxCastDurationSeconds == 16

----------------------------------------------------------------------------
(* Values *)

StateSearching == "Searching"
StateMonitoring == "Monitoring"
StateReeling == "Reeling"
StateCooldown == "Cooldown"
StateCasting == "Casting"
StateHalt == "Halt"
StateWaitingFocus == "WaitingFocus"

FishingState == {StateSearching, StateMonitoring, StateReeling, StateCooldown,
                 StateCasting, StateHalt, StateWaitingFocus}

NoTimer == -1
Zero == -1
NilCfg == [nil |-> TRUE]
NoDetector == [nil |-> TRUE]

\* coordinates a detection reports
Coords == {<<3, 4>>, <<5, 5>>}

AllActions == [PressKey |-> TRUE, MoveCursor |-> TRUE, ClickRight |-> TRUE, ParseVK |-> TRUE]

\* the (cfg, actions) arguments NewFSM is called with: the nil configuration
\* of the tests and a configuration as the application passes it
Setups == {<<NilCfg, AllActions>>,
           <<[nil |-> FALSE, CooldownSeconds |-> 2, MaxCastDurationSeconds |-> 8],
             AllActions>>}

evtTargetAcquired == [type |-> "evtTargetAcquired"]
evtTargetAcquiredAt(x, y) == [type |-> "evtTargetAcquiredAt", x |-> x, y |-> y]
evtTargetLost == [type |-> "evtTargetLost"]
evtHalt == [type |-> "evtHalt"]
evtFishBite == [type |-> "evtFishBite"]
evtFocusAcquired == [type |-> "evtFocusAcquired"]
evtAwaitFocus == [type |-> "evtAwaitFocus"]
evtForceCast == [type |-> "evtForceCast"]
evtAddListener(l) == [type |-> "evtAddListener", l |-> l]
evtCancel == [type |-> "evtCancel"]
evtMonitoringFrame(motion) == [type |-> "evtMonitoringFrame", motion |-> motion]


----------------------------------------------------------------------------
(* The bite detector (bite_detector.go).  A frame is a sequence of pixels    *)
(* <<r, g, b>>; the detector keeps luminances.  dt, the mean absolute        *)
(* difference to the previous frame, is kept as its numerator sumPrev over   *)
(* the number of pixels of the frame, and the float comparisons are made on  *)
(* numerators, exactly.  The fields that only feed the log (minDT, maxDT,    *)
(* lastDT, ...) are left out.                                                *)

windowSize == 20
minFramesForStats == 5
pixelDiffThreshold == 10
\* ratioThresholdSpike = 0.18, in per cent
ratioThresholdSpike == 18
\* ratioThresholdBase = 0.12, in per cent
ratioThresholdBase == 12
baselineDiffThresh == 14
stdDevMultiplier == 2
\* bigImmediateRatio = 0.20, in per cent
bigImmediateRatio == 20
bigImmediateDiff == 12
\* emaAlpha = 0.03, in per cent
emaAlpha == 3
frameDebounceNeeded == 1

\* number of frames fed to a detector between two Resets
MaxFrames == 7

\* number of Resets of the detector under test
MaxResets == 1

Abs(x) == IF x < 0 THEN -x ELSE x

RECURSIVE Sum(_)
Sum(q) == IF q = <<>> THEN 0 ELSE Head(q) + Sum(Tail(q))

\* byte((77*r + 150*g + 29*b) >> 8)
Luminance(p) == ((77 * p[1] + 150 * p[2] + 29 * p[3]) \div 256) % 256

\* the gray pixel of level v
Gray(v) == <<v, v, v>>

\* the frames fed: a still frame, the same one 10 levels brighter, one with a
\* pixel raised by 60, one with a pixel raised by 20, one with a tinted pixel
Frames ==
    {<<Gray(50), Gray(50)>>, <<Gray(60), Gray(60)>>, <<Gray(50), Gray(110)>>,
     <<Gray(50), Gray(70)>>, <<<<60, 50, 40>>, Gray(50)>>}

\* make([]byte, n)
Zeros(n) == [i \in 1..n |-> 0]

\* NewBiteDetector: all fields zero, the window allocated
NewDetector ==
    [prev |-> <<>>, ema |-> <<>>, n |-> 0,
     window |-> Zeros(windowSize), wIdx |-> 0, wCount |-> 0, frameCnt |-> 0,
     triggered |-> FALSE, prevCandidate |-> FALSE, candidateFrames |-> 0,
     statsFrozen |-> FALSE]

\* a Reset that leaves the trigger flag as it is
DetectorResetKeepsTrigger(b) == [NewDetector EXCEPT !.triggered = b.triggered]

\* BiteDetector.Reset
DetectorReset(b) ==
    [b EXCEPT !.prev = <<>>, !.ema = <<>>, !.n = 0,
              !.wIdx = 0, !.wCount = 0, !.frameCnt = 0,
              !.triggered = FALSE, !.prevCandidate = FALSE,
              !.candidateFrames = 0, !.statsFrozen = FALSE,
              !.window = Zeros(windowSize)]

\* the luminances of a frame: b.cur after the conversion loop
Luminances(frame) == [i \in 1..Len(frame) |-> Luminance(frame[i])]

\* a detector that goes on after it has triggered
inertNever(b) == FALSE

\* "b.triggered" in the guard of FeedFrame: the detector is inert
inert(b) == b.triggered

\* a changed-pixel test that counts a difference equal to the threshold
changedAtThreshold(d) == d >= pixelDiffThreshold

\* diffPrev > pixelDiffThreshold
changed(d) == d > pixelDiffThreshold

\* sumPrev, changedPixels and sumBase of the frame with luminances cur
sumPrev(b, cur) == Sum([i \in 1..Len(cur) |-> Abs(cur[i] - b.prev[i])])
changedPixels(b, cur) ==
    Cardinality({i \in 1..Len(cur) : changed(Abs(cur[i] - b.prev[i]))})
sumBase(b, cur) == Sum([i \in 1..Len(cur) |-> Abs(cur[i] - b.ema[i])])

\* dt > mean + stdDevMultiplier*std, for mean and std of the first wCount
\* entries of the window (Welford's sample deviation) and dt = x/n, the
\* window holding numerators over the same n: with s1 and s2 the sums of the
\* entries and of their squares, mean = s1/(k*n) and
\* std^2 = (k*s2 - s1^2) / (k*(k-1)*n^2)
aboveDeviation(b, x) ==
    LET k == b.wCount
        w == SubSeq(b.window, 1, k)
        s1 == Sum(w)
        s2 == Sum([i \in 1..k |-> w[i] * w[i]])
        a == k * x - s1
    IN IF k = 0 THEN x > 0
       ELSE IF k = 1 THEN x > s1
       ELSE a > 0 /\ a * a * (k - 1) >
                       stdDevMultiplier * stdDevMultiplier * k * (k * s2 - s1 * s1)

spike(b, cur) ==
    /\ b.wCount >= minFramesForStats
    /\ aboveDeviation(b, sumPrev(b, cur))
    /\ 100 * changedPixels(b, cur) > ratioThresholdSpike * Len(cur)

baseJump(b, cur) ==
    /\ sumBase(b, cur) > baselineDiffThresh * Len(cur)
    /\ 100 * changedPixels(b, cur) > ratioThresholdBase * Len(cur)

bigImmediate(b, cur) ==
    /\ b.wCount < minFramesForStats
    /\ 100 * changedPixels(b, cur) > bigImmediateRatio * Len(cur)
    /\ sumPrev(b, cur) > bigImmediateDiff * Len(cur)

candidate(b, cur) == spike(b, cur) \/ baseJump(b, cur) \/ bigImmediate(b, cur)

\* a trigger condition that asks for three candidate frames in a row
debouncedThree(cf, big) == cf >= 3

\* b.candidateFrames >= frameDebounceNeeded || (bigImmediate && b.candidateFrames == 1)
debounced(cf, big) == cf >= frameDebounceNeeded \/ (big /\ cf = 1)

\* int(float64(d)*emaAlpha): the product truncated towards zero
Scaled(d) == IF d >= 0 THEN (emaAlpha * d) \div 100 ELSE -((emaAlpha * (-d)) \div 100)

\* the baseline after the update loop, clamped to a byte
emaUpdate(b, cur) ==
    [i \in 1..Len(cur) |->
        LET v == b.ema[i] + Scaled(cur[i] - b.ema[i])
        IN IF v < 0 THEN 0 ELSE IF v > 255 THEN 255 ELSE v]

\* the window after "b.window[b.wIdx] = dt" and the index and count updates
pushWindow(b, x) ==
    [b EXCEPT !.window[b.wIdx + 1] = x,
              !.wIdx = (b.wIdx + 1) % windowSize,
              !.wCount = IF b.wCount < windowSize THEN b.wCount + 1 ELSE b.wCount]

\* FeedFrame from the second frame on: b has buffers of the frame's size
compare(b, cur) ==
    LET cand == candidate(b, cur)
        big == bigImmediate(b, cur)
        c == IF cand
             THEN [b EXCEPT !.candidateFrames = @ + 1,
                            !.statsFrozen = IF ~b.prevCandidate THEN TRUE ELSE @]
             ELSE [b EXCEPT !.candidateFrames = 0, !.statsFrozen = FALSE]
    IN IF cand /\ debounced(c.candidateFrames, big)
       THEN <<[c EXCEPT !.triggered = TRUE], TRUE>>
       ELSE LET d == [c EXCEPT !.prevCandidate = cand]
                e == IF ~d.statsFrozen THEN pushWindow(d, sumPrev(b, cur)) ELSE d
            IN <<[e EXCEPT !.ema = emaUpdate(b, cur), !.prev = cur,
                           !.frameCnt = @ + 1], FALSE>>

\* BiteDetector.FeedFrame: <<the detector after the call, the result>>
DetectorFeedFrame(b, frame) ==
    IF inert(b) \/ Len(frame) = 0 THEN <<b, FALSE>>
    ELSE LET n == Len(frame)
             a == IF b.prev = <<>> \/ n # b.n
                  THEN [b EXCEPT !.prev = Zeros(n), !.ema = Zeros(n), !.n = n]
                  ELSE b
             cur == Luminances(frame)
         IN IF a.frameCnt = 0
            THEN <<[a EXCEPT !.prev = cur, !.ema = cur, !.frameCnt = 1], FALSE>>
            ELSE compare(a, cur)

\* the record of a detector that has been fed nothing since it was made or
\* Reset, k Resets so far, the last of a detector that had triggered or not
NoFrames(k, t) ==
    [frames |-> <<>>, got |-> <<>>, want |-> <<>>, quiet |-> TRUE,
     resets |-> k, wasTriggered |-> t]

----------------------------------------------------------------------------
(* Scale generation (multi_scale.go, MultiScaleMatchParallel).  A scale     *)
(* factor is a float64, counted here in units of 1e-9.  A Go int is a small *)
(* integer or one of the two ends of its range, with an offset.             *)

\* the number of scales the generation stops at
maxStepsCap == 200

\* the 1e-9 the loop allows a factor above MaxScale
Tolerance == 1

\* the largest distance from MinScale to a MaxScale of the model
MaxSpan == 4

\* a MaxScale well above the cap
FarScale == 250

\* a MaxScale such as 1e30: (MaxScale-MinScale)/ScaleStep is outside the range of int
Huge == 1000000

Small(n) == [tag |-> "small", n |-> n]
MinInt64 == [tag |-> "min", n |-> 0]
MaxInt64 == [tag |-> "max", n |-> 0]

\* int(x) for the float64 x = num/den >= 0: truncation; for an x the type
\* cannot represent, the value the build yields (amd64: the least int,
\* arm64: the greatest)
toInt(num, den, representable) ==
    IF representable THEN {Small(num \div den)} ELSE {MinInt64, MaxInt64}

\* 1 + v in int arithmetic, which wraps around
plusOne(v) ==
    CASE v.tag = "max" -> MinInt64
      [] v.tag = "min" -> [v EXCEPT !.n = @ + 1]
      [] OTHER -> Small(v.n + 1)

\* v > k and v < 0 for a small k
greater(v, k) == v.tag = "max" \/ (v.tag = "small" /\ v.n > k)
negative(v) == v.tag = "min" \/ (v.tag = "small" /\ v.n < 0)

\* the condition under which the scales are generated
adaptive(o) ==
    /\ o.MinScale > 0 /\ o.MaxScale > 0 /\ o.ScaleStep > 0
    /\ o.MaxScale >= o.MinScale

\* maxSteps := 1 + int((opts.MaxScale-opts.MinScale)/opts.ScaleStep+0.5), then capped
capSteps(v) == IF greater(v, maxStepsCap) THEN Small(maxStepsCap) ELSE v

maxSteps(o) ==
    { capSteps(plusOne(v)) :
        v \in toInt(2 * (o.MaxScale - o.MinScale) + o.ScaleStep, 2 * o.ScaleStep,
                    o.MaxScale # Huge) }

\* the loop's condition: s <= opts.MaxScale+1e-9 && len(scales) < maxSteps
loopsOn(g) ==
    /\ g.s <= g.opts.MaxScale + Tolerance
    /\ Len(g.scales) < g.maxSteps

\* the options MultiScaleMatchParallel is called with
ScaleOptions ==
    { [Scales |-> sc, MinScale |-> mn, MaxScale |-> mx, ScaleStep |-> st] :
        sc \in {<<>>}, mn \in 1..2, st \in 1..3,
        mx \in (1..2 + MaxSpan) \cup {FarScale, Huge} }
    \cup { [Scales |-> sc, MinScale |-> 0, MaxScale |-> 3, ScaleStep |-> 1] :
             sc \in {<<>>, <<2, 3>>} }

\* no call in progress
NoScales ==
    [pc |-> "idle", opts |-> [Scales |-> <<>>, MinScale |-> 0, MaxScale |-> 0, ScaleStep |-> 0],
     generated |-> FALSE, maxSteps |-> 0, s |-> 0, scales |-> <<>>]

\* the call has been made with the options o
Called(o) == [NoScales EXCEPT !.pc = "start", !.opts = o]


----------------------------------------------------------------------------
(* The multi-scale search (multi_scale.go, MultiScaleMatchParallel from the  *)
(* dispatch loop on).  Scores are counted in hundredths.  Each entry of      *)
(* opts.Scales stands for a factor together with what the template scaled    *)
(* by it and the frame give: no scaled template (w < 2 or h < 2), a constant *)
(* scaled template that the frame does not contain, or a varied one whose    *)
(* best window has the given score.                                         *)

\* the number of entries of opts.Scales
MaxScales == 3

\* the sizes of the pool: runtime.NumCPU()
MaxCPU == 2

\* NCCResult{Score: -1}
NoScore == -100

\* the scores of the best windows in the model
Scores == {50, 90, 100}

ScaleCases ==
    {[positive |-> FALSE, kind |-> "none", Score |-> NoScore],
     [positive |-> TRUE, kind |-> "none", Score |-> NoScore],
     [positive |-> TRUE, kind |-> "constant", Score |-> NoScore]}
    \cup {[positive |-> TRUE, kind |-> "varied", Score |-> x] : x \in Scores}

SearchOptions ==
    { [Scales |-> sc, StopOnScore |-> st, NCC |-> [Threshold |-> th, Stride |-> sd]] :
        sc \in [1..MaxScales -> ScaleCases], st \in {0, 90}, th \in {80, 95}, sd \in {0, 1} }

\* getScaledTemplatePrecompFromBase(baseTmpl, factor) == nil
noPrecomp(c) == c.kind = "none"

\* matchTemplateNCCGrayIntegralPre does not return: the scan for a constant
\* template advances by opts.Stride, and does not advance when that is 0
scans(c, ncc) == c.kind = "constant" /\ ncc.Stride <= 0

\* the NCCResult of matchTemplateNCCGrayIntegralPre, with the scale it is for
matched(c, ncc, factor) ==
    IF c.kind = "constant"
    THEN [Score |-> NoScore, Found |-> FALSE, Scale |-> factor]
    ELSE [Score |-> c.Score, Found |-> c.Score >= ncc.Threshold, Scale |-> factor]

\* best := MultiScaleResult{Score: -1}
NoResult == [Score |-> NoScore, Found |-> FALSE, Scale |-> 0]

\* a goroutine of the dispatch loop that has not been started
NoWorker == [pc |-> "none", res |-> NoResult, evaluated |-> FALSE, skipped |-> FALSE,
             claimed |-> FALSE, sent |-> FALSE]

\* no call in progress
NoSearch ==
    [pc |-> "idle", opts |-> [Scales |-> <<>>, StopOnScore |-> 0,
                              NCC |-> [Threshold |-> 0, Stride |-> 0]],
     NumCPU |-> 1, i |-> 1, earlyStop |-> 0, results |-> <<>>, closed |-> FALSE,
     wg |-> 0, sem |-> 0, scalesCount |-> 0, w |-> <<>>, closer |-> "none",
     best |-> NoResult, received |-> <<>>]

\* the call has reached the dispatch loop with the options o on n CPUs
Dispatching(o, n) ==
    [NoSearch EXCEPT !.pc = "dispatch", !.opts = o, !.NumCPU = n,
                     !.w = [k \in 1..Len(o.Scales) |-> NoWorker]]

\* sem <- struct{}{} blocks
semNeverFull(m) == FALSE

semFull(m) == m.sem >= m.NumCPU

\* results <- msr blocks: the channel holds len(opts.Scales) results
resultsFull(m) == Len(m.results) >= Len(m.opts.Scales)

\* opts.StopOnScore > 0 && res.Score >= opts.StopOnScore
reaches(score, o) == o.StopOnScore > 0 /\ score >= o.StopOnScore

\* atomic.CompareAndSwapInt32(&earlyStop, 0, 1): <<swapped, earlyStop>>
casAlways(v) == <<TRUE, 1>>

cas(v) == IF v = 0 THEN <<TRUE, 1>> ELSE <<FALSE, v>>

\* if r.Score > best.Score { best = r }
betterOrEqual(r, b) == r.Score >= b.Score

better(r, b) == r.Score > b.Score

\* atomic.LoadInt32(&earlyStop) == 1
skips(v) == v = 1

----------------------------------------------------------------------------
(* The template cache (ncc.go): tmplCacheByDim, getTemplatePrecomp and       *)
(* getScaledTemplatePrecompFromBase.  A templatePrecomp is known by the      *)
(* goroutine and call that allocated it (its address), by its size and by    *)
(* the template and factor its gray values and statistics were computed      *)
(* from.  Factors are counted in hundredths.                                 *)

\* the goroutines that make requests at the same time
MaxCallers == 3

\* the templates: two images of the same size
Templates == {[id |-> "A", W |-> 4, H |-> 4], [id |-> "B", W |-> 4, H |-> 4]}

\* the factors requested: 0.5, 1.0 and 1.1
Factors == {50, 100, 110}

\* the keys of the cache
Keys == {<<2, 2>>, <<4, 4>>}

\* a nil *templatePrecomp
NilPrecomp == [W |-> 0, H |-> 0, tmpl |-> "", factor |-> 0, by |-> <<0, "">>]

\* tmplCacheByDim = map[[2]int]*templatePrecomp{}
EmptyCache == [key \in Keys |-> NilPrecomp]

\* int(float64(base.W) * factor)
scaledSize(n, factor) == (n * factor) \div 100

\* the templatePrecomp getTemplatePrecomp builds for tmpl on goroutine k
basePrecomp(tmpl, k) ==
    [W |-> tmpl.W, H |-> tmpl.H, tmpl |-> tmpl.id, factor |-> 100, by |-> <<k, "base">>]

\* the templatePrecomp getScaledTemplatePrecompFromBase builds from base on goroutine k
scaledPrecomp(base, factor, k) ==
    [W |-> scaledSize(base.W, factor), H |-> scaledSize(base.H, factor),
     tmpl |-> base.tmpl, factor |-> factor, by |-> <<k, "scaled">>]

\* under tmplCacheMu.Lock(): if existing := tmplCacheByDim[key]; existing == nil {
\*     tmplCacheByDim[key] = pc } else { pc = existing }
\* gives <<the cache, the pc returned>>
storeAlways(cache, key, new) == <<[cache EXCEPT ![key] = new], new>>

store(cache, key, new) ==
    IF cache[key] = NilPrecomp
    THEN <<[cache EXCEPT ![key] = new], new>>
    ELSE <<cache, cache[key]>>

\* a goroutine about to call getTemplatePrecomp(tmpl) and then
\* getScaledTemplatePrecompFromBase(base, factor)
Caller(tmpl, factor) ==
    [pc |-> "base", tmpl |-> tmpl, factor |-> factor, built |-> NilPrecomp,
     base |-> NilPrecomp, scaled |-> NilPrecomp]

\* no call in progress
NoRequests == [cache |-> EmptyCache, g |-> <<>>]

----------------------------------------------------------------------------
(* The matcher (ncc.go).  An image is nil or has a width, a height and its  *)
(* pixels <<r, g, b, a>> row by row, as At(x, y).RGBA() returns them; the   *)
(* pixels of the model are gray or fully transparent, so that a gray value  *)
(* is an integer.  The float64 statistics are kept exactly: a mean as the    *)
(* sum and the count it is divided by, a standard deviation by the integer  *)
(* n*sum2 - sum*sum, which is n*n times the variance, and a score by its     *)
(* numerator and the square of its denominator.                             *)

\* an opaque gray pixel of value v, and a fully transparent pixel
Opaque(v) == <<v, v, v, 1>>
Clear == <<0, 0, 0, 0>>

\* a nil image, and an image of the given size
NilImage == [nil |-> TRUE, W |-> 0, H |-> 0, pix |-> <<>>]
Image(w, h, pix) == [nil |-> FALSE, W |-> w, H |-> h, pix |-> pix]

\* 0.2126*float64(r) + 0.7152*float64(g) + 0.0722*float64(b)
gval(p) == (2126 * p[1] + 7152 * p[2] + 722 * p[3]) \div 10000

\* the sum of f(i) for i in lo..hi
RECURSIVE SumOver(_, _, _)
SumOver(f(_), lo, hi) == IF lo > hi THEN 0 ELSE f(hi) + SumOver(f, lo, hi - 1)

\* buildGrayPrecomp: the gray values (alpha == 0 gives zero) and the two
\* summed-area tables, offsets counted from 1
buildGrayPrecomp(frame) ==
    LET need == frame.W * frame.H
        gray == [off \in 1..need |->
                   IF frame.pix[off][4] # 0 THEN gval(frame.pix[off]) ELSE 0]
        upTo(off, g(_)) ==
            LET x == (off - 1) % frame.W
                y == (off - 1) \div frame.W
                cell(k) == IF (k - 1) % frame.W <= x /\ (k - 1) \div frame.W <= y
                           THEN g(k) ELSE 0
            IN SumOver(cell, 1, need)
        val(k) == gray[k]
        sq(k) == gray[k] * gray[k]
    IN [gray |-> gray,
        integral |-> [off \in 1..need |-> upTo(off, val)],
        integralSq |-> [off \in 1..need |-> upTo(off, sq)],
        W |-> frame.W, H |-> frame.H]

\* integralSum: the sum over the rectangle [x0..x1] x [y0..y1]
integralSum(I, W, x0, y0, x1, y1) ==
    LET A(x, y) == IF x < 0 \/ y < 0 THEN 0 ELSE I[y * W + x + 1]
    IN IF x0 > x1 \/ y0 > y1 THEN 0
       ELSE A(x1, y1) - A(x0 - 1, y1) - A(x1, y0 - 1) + A(x0 - 1, y0 - 1)

\* the number of pixels of the template with alpha # 0
opaqueCount(tmpl) == Cardinality({off \in 1..(tmpl.W * tmpl.H) : tmpl.pix[off][4] # 0})

\* a count that takes each row one pixel longer
paddedCount(tmpl) == (tmpl.W + 1) * tmpl.H
\* n := float64(need): the count the template's mean and variance are taken over
templateCount(tmpl) == tmpl.W * tmpl.H

\* a nil *templatePrecomp of the matcher
NoPrecomp == [nil |-> TRUE, gray |-> <<>>, sumT |-> 0, sumT2 |-> 0, W |-> 0, H |-> 0, n |-> 1]

\* getTemplatePrecomp with an empty cache: nil for a nil or empty template,
\* else the gray values (alpha == 0 left at zero), their sum and sum of
\* squares; meanT is sumT/n and stdT is Sqrt(n*sumT2 - sumT*sumT)/n
getTemplatePrecomp(tmpl) ==
    IF tmpl.nil \/ tmpl.W = 0 \/ tmpl.H = 0 THEN NoPrecomp
    ELSE LET need == tmpl.W * tmpl.H
             gray == [off \in 1..need |->
                        IF tmpl.pix[off][4] = 0 THEN 0 ELSE gval(tmpl.pix[off])]
             val(k) == gray[k]
             sq(k) == gray[k] * gray[k]
         IN [nil |-> FALSE, gray |-> gray, sumT |-> SumOver(val, 1, need),
             sumT2 |-> SumOver(sq, 1, need), W |-> tmpl.W, H |-> tmpl.H,
             n |-> templateCount(tmpl)]

\* n*n times the variance of the template
varT(tp) == tp.n * tp.sumT2 - tp.sumT * tp.sumT


\* a score: numerator over the square root of D2; -1 and 1 themselves
Score(N, D2) == [N |-> N, D2 |-> D2]
MinusOne == Score(-1, 1)
One == Score(1, 1)
ZeroScore == Score(0, 1)

\* score > bestScore
scoreGreater(s, b) ==
    CASE s.N >= 0 /\ b.N < 0 -> TRUE
      [] s.N < 0 /\ b.N >= 0 -> FALSE
      [] s.N >= 0 /\ b.N >= 0 -> s.N * s.N * b.D2 > b.N * b.N * s.D2
      [] OTHER -> s.N * s.N * b.D2 < b.N * b.N * s.D2

\* score >= threshold, the threshold in hundredths
atLeast(s, th) ==
    CASE s.N >= 0 /\ th <= 0 -> TRUE
      [] s.N < 0 /\ th > 0 -> FALSE
      [] s.N >= 0 /\ th > 0 -> 10000 * s.N * s.N >= th * th * s.D2
      [] OTHER -> 10000 * s.N * s.N <= th * th * s.D2

\* NCCResult{Score: -1}, and a call that does not return
NoMatch == [X |-> 0, Y |-> 0, Score |-> MinusOne, Found |-> FALSE, hangs |-> FALSE]
Hangs == [NoMatch EXCEPT !.hangs = TRUE]

\* the window positions 0, stride, 2*stride, ... up to last for a stride > 0
RECURSIVE Steps(_, _, _)
Steps(from, stride, last) ==
    IF from > last THEN <<>> ELSE <<from>> \o Steps(from + stride, stride, last)

\* the positions <<x, y>> of a scan of rows ys and columns xs, row by row
RECURSIVE Rows(_, _)
Rows(ys, xs) ==
    IF ys = <<>> THEN <<>>
    ELSE [i \in 1..Len(xs) |-> <<xs[i], Head(ys)>>] \o Rows(Tail(ys), xs)

\* every pixel of the window at (x, y) equals ref
windowIs(pre, tp, x, y, refv) ==
    \A i \in 0..(Len(tp.gray) - 1) :
       pre.gray[(y + (i \div tp.W)) * pre.W + (x + (i % tp.W)) + 1] = refv

\* the scan for a constant template: the first window equal to tp.gray[0]
\* gives score 1; the loops advance by opts.Stride as given
RECURSIVE firstEqual(_, _, _)
firstEqual(pre, tp, ps) ==
    IF ps = <<>> THEN NoMatch
    ELSE IF windowIs(pre, tp, Head(ps)[1], Head(ps)[2], tp.gray[1])
    THEN [X |-> Head(ps)[1], Y |-> Head(ps)[2], Score |-> One, Found |-> TRUE, hangs |-> FALSE]
    ELSE firstEqual(pre, tp, Tail(ps))

constantScan(pre, tp, opts) ==
    IF opts.Stride > 0
    THEN firstEqual(pre, tp, Rows(Steps(0, opts.Stride, pre.H - tp.H),
                                  Steps(0, opts.Stride, pre.W - tp.W)))
    ELSE IF windowIs(pre, tp, 0, 0, tp.gray[1])
    THEN firstEqual(pre, tp, <<<<0, 0>>>>)
    ELSE Hangs

\* the score of the window at (x, y), or MinusOne with skipped set when the
\* window's variance is zero
windowScore(pre, tp, x, y) ==
    LET n == tp.W * tp.H
        sumF == integralSum(pre.integral, pre.W, x, y, x + tp.W - 1, y + tp.H - 1)
        sumF2 == integralSum(pre.integralSq, pre.W, x, y, x + tp.W - 1, y + tp.H - 1)
        varF == n * sumF2 - sumF * sumF
        prod(k) == pre.gray[(y + ((k - 1) \div tp.W)) * pre.W + (x + ((k - 1) % tp.W)) + 1]
                     * tp.gray[k]
        sumFT == SumOver(prod, 1, Len(tp.gray))
    IN IF varF <= 0 THEN [skipped |-> TRUE, score |-> MinusOne]
       ELSE [skipped |-> FALSE,
             score |-> Score(tp.n * sumFT - sumF * tp.sumT, varF * varT(tp))]

\* one pass over the positions ps: <<bestX, bestY, bestScore>>
RECURSIVE scan(_, _, _, _)
scan(pre, tp, ps, best) ==
    IF ps = <<>> THEN best
    ELSE LET ws == windowScore(pre, tp, Head(ps)[1], Head(ps)[2])
         IN scan(pre, tp, Tail(ps),
                 IF ~ws.skipped /\ scoreGreater(ws.score, best[3])
                 THEN <<Head(ps)[1], Head(ps)[2], ws.score>> ELSE best)

max(a, b) == IF a > b THEN a ELSE b
min(a, b) == IF a < b THEN a ELSE b

\* matchTemplateNCCGrayIntegralPre
matchTemplateNCCGrayIntegralPre(frame, tp, opts, pre) ==
    IF frame.nil \/ tp.nil THEN NoMatch
    ELSE IF tp.W = 0 \/ tp.H = 0 \/ frame.W < tp.W \/ frame.H < tp.H THEN NoMatch
    ELSE IF varT(tp) <= 0 THEN constantScan(pre, tp, opts)
    ELSE LET stride == IF opts.Stride <= 0 THEN 1 ELSE opts.Stride
             coarse == scan(pre, tp, Rows(Steps(0, stride, frame.H - tp.H),
                                          Steps(0, stride, frame.W - tp.W)),
                            <<0, 0, MinusOne>>)
             fine == IF opts.Refine /\ stride > 1
                     THEN scan(pre, tp,
                               Rows(Steps(max(0, coarse[2] - stride), 1,
                                          min(frame.H - tp.H, coarse[2] + stride)),
                                    Steps(max(0, coarse[1] - stride), 1,
                                          min(frame.W - tp.W, coarse[1] + stride))),
                               coarse)
                     ELSE coarse
         IN [X |-> fine[1], Y |-> fine[2], Score |-> fine[3],
             Found |-> atLeast(fine[3], opts.Threshold), hangs |-> FALSE]

\* MatchTemplateNCC, with the template's statistics as cached
MatchTemplateNCC(frame, tmpl, opts, cached) ==
    LET o == [opts EXCEPT !.Threshold = IF @ <= 0 THEN 80 ELSE @,
                          !.Stride = IF @ <= 0 THEN 1 ELSE @]
    IN IF frame.nil \/ tmpl.nil THEN NoMatch
       ELSE IF tmpl.W = 0 \/ tmpl.H = 0 \/ frame.W < tmpl.W \/ frame.H < tmpl.H THEN NoMatch
       ELSE matchTemplateNCCGrayIntegralPre(frame, cached, o, buildGrayPrecomp(frame))


\* MultiScaleResult{}
ZeroResult == [X |-> 0, Y |-> 0, Score |-> ZeroScore, Found |-> FALSE, hangs |-> FALSE]

\* the pixel values of the frames and of the templates of the model
FramePixels == {Opaque(1), Opaque(3)}
TemplatePixels == {Clear, Opaque(1), Opaque(3)}

\* the frames: nil, empty, one pixel, and two or three pixels wide, two high
MatchFrames ==
    {NilImage, Image(0, 0, <<>>), Image(1, 1, <<Opaque(1)>>)}
    \cup { Image(2, 2, <<a, b, c, Opaque(3)>>) :
              a \in FramePixels, b \in FramePixels, c \in FramePixels }
    \cup { Image(3, 2, <<a, b, c, Opaque(1), Opaque(3), Opaque(0)>>) :
              a \in FramePixels, b \in FramePixels, c \in FramePixels }

\* the templates: nil, empty, and two by two with transparent pixels
MatchTemplates ==
    {NilImage, Image(0, 0, <<>>)}
    \cup { Image(2, 2, <<a, a, a, a>>) : a \in TemplatePixels }
    \cup { Image(2, 2, <<a, b, c, c>>) : a \in TemplatePixels, b \in FramePixels,
                                         c \in {Clear, Opaque(3)} }

\* NCCOptions: the threshold in hundredths
MatchOptions ==
    { [Threshold |-> th, Stride |-> sr[1], Refine |-> sr[2]] :
        th \in {0, 80}, sr \in {<<0, FALSE>>, <<2, FALSE>>, <<2, TRUE>>} }

\* the key of the template cache: the template's dimensions
dimKey(w, h) == <<w, h>>

\* getTemplatePrecomp on the cache: nil for a nil or empty template, else
\* the entry under the template's dimensions, built from the template when
\* there is none
cachedPrecomp(cache, tmpl) ==
    IF tmpl.nil \/ tmpl.W = 0 \/ tmpl.H = 0 THEN NoPrecomp
    ELSE IF dimKey(tmpl.W, tmpl.H) \in DOMAIN cache THEN cache[dimKey(tmpl.W, tmpl.H)]
    ELSE getTemplatePrecomp(tmpl)

\* the cache after getTemplatePrecomp (the entries under the dimensions of
\* resampled templates are left out: no template of the model has them)
cacheAfter(cache, tmpl) ==
    IF tmpl.nil \/ tmpl.W = 0 \/ tmpl.H = 0 \/ dimKey(tmpl.W, tmpl.H) \in DOMAIN cache
    THEN cache
    ELSE [k \in DOMAIN cache \cup {dimKey(tmpl.W, tmpl.H)} |->
            IF k \in DOMAIN cache THEN cache[k] ELSE getTemplatePrecomp(tmpl)]

\* getScaledTemplatePrecompFromBase once base is cached under its
\* dimensions: base itself for the factor 1.0 and for a factor that keeps the
\* dimensions, nil below two pixels, else the resampled template, of which
\* the model keeps the dimensions (no frame of the model is that large)
getScaledTemplatePrecompFromBase(base, factor) ==
    LET w == scaledSize(base.W, factor)
        h == scaledSize(base.H, factor)
    IN IF base.nil \/ factor <= 0 THEN NoPrecomp
       ELSE IF factor = 100 THEN base
       ELSE IF w < 2 \/ h < 2 THEN NoPrecomp
       ELSE IF w = base.W /\ h = base.H THEN base
       ELSE [NoPrecomp EXCEPT !.nil = FALSE, !.W = w, !.H = h, !.n = w * h]

\* the scale list the search runs on: opts.Scales, or the factors generated
\* from MinScale by ScaleStep (hundredths) while s <= MaxScale+1e-9 and fewer
\* than maxSteps are in the list
scalesOf(o) ==
    IF Len(o.Scales) # 0 \/ ~adaptive(o) THEN o.Scales
    ELSE LET steps == min(maxStepsCap,
                          1 + (2 * (o.MaxScale - o.MinScale) + o.ScaleStep) \div (2 * o.ScaleStep))
         IN [i \in 1..min(steps, 1 + (o.MaxScale - o.MinScale) \div o.ScaleStep) |->
               o.MinScale + (i - 1) * o.ScaleStep]

\* the results the workers can produce, one per scale with a scaled template
workerResults(frame, base, o) ==
    { matchTemplateNCCGrayIntegralPre(frame, scaledPc, o.NCC, buildGrayPrecomp(frame)) :
        scaledPc \in { sp \in { getScaledTemplatePrecompFromBase(base, f) :
                                  f \in {g \in {scalesOf(o)[i] : i \in 1..Len(scalesOf(o))} : g > 0} } : ~sp.nil } }

\* the results whose worker sets earlyStop: opts.StopOnScore > 0 &&
\* res.Score >= opts.StopOnScore
stoppers(rs, o) ==
    {r \in rs : ~r.hangs /\ o.StopOnScore > 0 /\ atLeast(r.Score, o.StopOnScore)}

\* the aggregation of all the results: the strictly greatest score above
\* the initial -1 wins, the first received of equals
bestOf(cands) ==
    IF cands = {} THEN {NoMatch}
    ELSE {r \in cands : \A q \in cands : ~scoreGreater(q.Score, r.Score)}

\* the results the search can return.  A worker whose score reaches
\* StopOnScore and that wins the compare-and-swap ends the search with its
\* result; a worker that never returns keeps the results channel open; else
\* all the results are aggregated
searchResults(rs, o) ==
    stoppers(rs, o) \cup
    (IF \E r \in rs : r.hangs THEN {Hangs}
     ELSE IF stoppers(rs, o) # {} THEN {}
     ELSE bestOf({r \in rs : scoreGreater(r.Score, MinusOne)}))

\* MultiScaleMatchParallel: the results it can return
MultiScaleMatch(frame, tmpl, o, cache) ==
    IF frame.nil \/ tmpl.nil THEN {ZeroResult}
    ELSE IF cachedPrecomp(cache, tmpl).nil THEN {ZeroResult}
    ELSE searchResults(workerResults(frame, cachedPrecomp(cache, tmpl), o), o)

\* the options MultiScaleMatch is called with
MultiScaleOptions ==
    { [Scales |-> sc, MinScale |-> 0, MaxScale |-> 0, ScaleStep |-> 0,
       StopOnScore |-> so, NCC |-> ncc] :
        sc \in {<<50, 100, 150>>}, so \in {0, 93}, ncc \in MatchOptions }

\* config.DefaultConfig(), the fields detection reads, in hundredths
DefaultConfig ==
    [nil |-> FALSE, MinScale |-> 90, MaxScale |-> 190, ScaleStep |-> 10, Threshold |-> 80,
     Stride |-> 4, Refine |-> TRUE, StopOnScore |-> 93]

\* the configurations detection is called with: none, and configurations with
\* values that Validate replaces
Configs ==
    {[nil |-> TRUE]}
    \cup { [DefaultConfig EXCEPT !.MinScale = mn, !.MaxScale = mx, !.ScaleStep = 20,
                                  !.Threshold = th, !.Stride = st, !.StopOnScore = so] :
              mn \in {0, 100}, mx \in {140}, th \in {120}, st \in {0, 1},
              so \in {0, 150} }

\* Config.Validate, the fields detection reads
Validate(c) ==
    LET c1 == [c EXCEPT !.MinScale = IF @ <= 0 THEN 60 ELSE @]
        c2 == [c1 EXCEPT !.MaxScale = IF @ <= 0 \/ @ < c1.MinScale THEN c1.MinScale + 80 ELSE @]
        c3 == [c2 EXCEPT !.ScaleStep = IF @ <= 0 THEN 5 ELSE @]
        c4 == [c3 EXCEPT !.ScaleStep = IF @ > c3.MaxScale - c3.MinScale
                                        THEN (c3.MaxScale - c3.MinScale) \div 4 ELSE @]
    IN [c4 EXCEPT !.Threshold = IF @ <= 0 \/ @ > 100 THEN 80 ELSE @,
                  !.Stride = IF @ <= 0 THEN 4 ELSE @,
                  !.StopOnScore = IF @ < 0 \/ @ > 100 THEN 95 ELSE @]

\* the error of DetectTemplateDetailed, and no error
detectError == "detect template error"
noError == "nil"

\* DetectTemplateDetailed: the <<result, error>> pairs it can return
DetectTemplateDetailed(frame, tmpl, c, cache) ==
    IF frame.nil \/ tmpl.nil THEN {<<ZeroResult, detectError>>}
    ELSE LET local == Validate(IF c.nil THEN DefaultConfig ELSE c)
         IN { <<r, noError>> :
                r \in MultiScaleMatch(frame, tmpl,
                        [Scales |-> <<>>, MinScale |-> local.MinScale,
                         MaxScale |-> local.MaxScale, ScaleStep |-> local.ScaleStep,
                         StopOnScore |-> local.StopOnScore,
                         NCC |-> [Threshold |-> local.Threshold, Stride |-> local.Stride,
                                  Refine |-> local.Refine]], cache) }

\* DetectTemplate: the <<(x, y, found), error>> pairs it can return
DetectTemplate(frame, tmpl, c, cache) ==
    { IF p[2] # noError
      THEN <<[X |-> 0, Y |-> 0, Found |-> FALSE, hangs |-> FALSE], p[2]>>
      ELSE <<[X |-> p[1].X, Y |-> p[1].Y, Found |-> p[1].Found, hangs |-> p[1].hangs], noError>> :
        p \in DetectTemplateDetailed(frame, tmpl, c, cache) }

\* the cache with no entry
NoCache == <<>>

\* no call made yet, and the state after a call of an entry point
NoCall == [pc |-> "idle", cache |-> NoCache]
Returned(entry, frame, tmpl, opts, before, after, res, err) ==
    [pc |-> IF res.hangs THEN "hung" ELSE "returned", entry |-> entry, frame |-> frame,
     tmpl |-> tmpl, opts |-> opts, before |-> before, cache |-> after,
     res |-> res, err |-> err]

----------------------------------------------------------------------------
(* The detector of package app (bite_detector.go of package app), the copy   *)
(* with a debounce of three frames: FeedFrame is the one above with its own  *)
(* thresholds, without the shortcut for a big first change, and with a       *)
(* square root taken by six Newton steps, which is never below the root and  *)
(* can be far above it; where the comparison of the spike test depends on    *)
(* how far, both outcomes are kept.                                          *)

appMinFramesForStats == 7
appPixelDiffThreshold == 16
\* ratioThresholdSpike = 0.28, in per cent
appRatioThresholdSpike == 28
\* ratioThresholdBase = 0.18, in per cent
appRatioThresholdBase == 18
appBaselineDiffThresh == 22
\* stdDevMultiplier = 2.8, in tenths
appStdDevMultiplier == 28
\* bigImmediateRatio = 0.45, in per cent
appBigImmediateRatio == 45
appBigImmediateDiff == 24
appFrameDebounceNeeded == 3

\* number of frames fed to the detector of package app, over all its sessions
MaxAppFrames == 10

\* the frames fed to it: a still frame, one with a pixel raised by 60 and one
\* with a pixel raised by 20
AppFrames ==
    {<<Gray(50), Gray(50)>>, <<Gray(50), Gray(110)>>, <<Gray(50), Gray(70)>>}

\* Reset of package app: the candidate run (prevCandidate, candidateFrames,
\* statsFrozen) and the window's entries are left as they are
appReset(b) ==
    [b EXCEPT !.prev = <<>>, !.ema = <<>>, !.n = 0,
              !.wIdx = 0, !.wCount = 0, !.frameCnt = 0, !.triggered = FALSE]

appChangedPixels(b, cur) ==
    Cardinality({i \in 1..Len(cur) : Abs(cur[i] - b.prev[i]) > appPixelDiffThreshold})

\* the outcomes of dt > mean + stdDevMultiplier*std for dt = x/n: with k, s1
\* and s2 as in aboveDeviation, std is 0 without a call of sqrt when
\* k*s2 = s1^2, and else sqrt returns the root or more
appAboveDeviation(b, x) ==
    LET k == b.wCount
        w == SubSeq(b.window, 1, k)
        s1 == Sum(w)
        s2 == Sum([i \in 1..k |-> w[i] * w[i]])
        a == k * x - s1
    IN IF k = 0 THEN {x > 0}
       ELSE IF k * s2 = s1 * s1 THEN {a > 0}
       ELSE IF a > 0 /\ 100 * a * a * (k - 1) >
                          appStdDevMultiplier * appStdDevMultiplier * k * (k * s2 - s1 * s1)
            THEN {TRUE, FALSE}
            ELSE {FALSE}

appSpike(b, cur) ==
    IF /\ b.wCount >= appMinFramesForStats
       /\ 100 * appChangedPixels(b, cur) > appRatioThresholdSpike * Len(cur)
    THEN appAboveDeviation(b, sumPrev(b, cur))
    ELSE {FALSE}

appBaseJump(b, cur) ==
    /\ sumBase(b, cur) > appBaselineDiffThresh * Len(cur)
    /\ 100 * appChangedPixels(b, cur) > appRatioThresholdBase * Len(cur)

appBigImmediate(b, cur) ==
    /\ b.wCount < appMinFramesForStats
    /\ 100 * appChangedPixels(b, cur) > appBigImmediateRatio * Len(cur)
    /\ sumPrev(b, cur) > appBigImmediateDiff * Len(cur)

\* the outcomes of candidate := spike || baseJump || bigImmediate
appCandidate(b, cur) ==
    {s \/ appBaseJump(b, cur) \/ appBigImmediate(b, cur) : s \in appSpike(b, cur)}

\* a window that is written on every frame that does not trigger
appUnfrozen(b, cur, cand) ==
    LET c == IF cand
             THEN [b EXCEPT !.candidateFrames = @ + 1,
                            !.statsFrozen = IF ~b.prevCandidate THEN TRUE ELSE @]
             ELSE [b EXCEPT !.candidateFrames = 0, !.statsFrozen = FALSE]
    IN IF cand /\ c.candidateFrames >= appFrameDebounceNeeded
       THEN <<[c EXCEPT !.triggered = TRUE], TRUE>>
       ELSE <<[pushWindow([c EXCEPT !.prevCandidate = cand], sumPrev(b, cur))
                  EXCEPT !.ema = emaUpdate(b, cur), !.prev = cur,
                         !.frameCnt = @ + 1], FALSE>>

\* FeedFrame of package app from the candidate test on, for a frame that is
\* a candidate or not
appCompare(b, cur, cand) ==
    LET c == IF cand
             THEN [b EXCEPT !.candidateFrames = @ + 1,
                            !.statsFrozen = IF ~b.prevCandidate THEN TRUE ELSE @]
             ELSE [b EXCEPT !.candidateFrames = 0, !.statsFrozen = FALSE]
    IN IF cand /\ c.candidateFrames >= appFrameDebounceNeeded
       THEN <<[c EXCEPT !.triggered = TRUE], TRUE>>
       ELSE LET d == [c EXCEPT !.prevCandidate = cand]
                e == IF ~d.statsFrozen THEN pushWindow(d, sumPrev(b, cur)) ELSE d
            IN <<[e EXCEPT !.ema = emaUpdate(b, cur), !.prev = cur,
                           !.frameCnt = @ + 1], FALSE>>

\* FeedFrame of package app: the pairs <<the detector after the call, the
\* result>> it can end with
appFeedFrame(b, frame) ==
    IF b.triggered \/ Len(frame) = 0 THEN {<<b, FALSE>>}
    ELSE LET n == Len(frame)
             a == IF b.prev = <<>> \/ n # b.n
                  THEN [b EXCEPT !.prev = Zeros(n), !.ema = Zeros(n), !.n = n]
                  ELSE b
             cur == Luminances(frame)
         IN IF a.frameCnt = 0
            THEN {<<[a EXCEPT !.prev = cur, !.ema = cur, !.frameCnt = 1], FALSE>>}
            ELSE {appCompare(a, cur, cand) : cand \in appCandidate(a, cur)}

----------------------------------------------------------------------------
(* The FSM presenter (ui/presenter/fsm_presenter.go) and the label of the    *)
(* view.  OnState runs on the FSM's worker goroutine, inside the listener    *)
(* app.Run registers, and Tick on the UI loop; p.pending is read and written *)
(* by both without a lock, one step per read or write of the slice.          *)

\* number of transitions the FSM reports
MaxReports == 4

\* "State: " + s.String(), and the label the view is built with
StateLabel(s) == <<"State: ", s>>
NoStateLabel == <<"State: ", "<none>">>

\* the state a listener is called with next, after it was called with s (the
\* run starts in Halt): Halt on evtHalt in any state, Casting on evtForceCast,
\* Searching straight after Casting, and the steps of the cycle, where a bite
\* is reported as Cooldown
reportedAfter(s) ==
    IF s = StateCasting THEN {StateSearching}
    ELSE {StateHalt, StateCasting} \cup
         (IF s = StateHalt THEN {StateWaitingFocus}
          ELSE IF s = StateWaitingFocus THEN {StateSearching}
          ELSE IF s = StateSearching THEN {StateMonitoring}
          ELSE IF s = StateMonitoring THEN {StateCooldown}
          ELSE {})

\* NewFSMPresenter(eng, view): latest is the zero FishingState, StateSearching;
\* nothing has been reported, OnState and Tick are not running
NewFSMPresenter ==
    [pending |-> <<>>, latest |-> StateSearching, label |-> NoStateLabel,
     on |-> "idle", onOld |-> <<>>, onS |-> StateHalt,
     tk |-> "idle", last |-> StateHalt, fresh |-> FALSE,
     reported |-> <<>>, stopped |-> FALSE, shown |-> FALSE]

\* the state the FSM reported last, Halt before the first report
lastReported(p) ==
    IF p.reported = <<>> THEN StateHalt ELSE p.reported[Len(p.reported)]

----------------------------------------------------------------------------
(* The focus watcher (ui/presenter/focus_watcher.go).  OnState runs on the   *)
(* FSM's worker goroutine, inside the listener app.Run registers; each start *)
(* makes a done channel and a polling goroutine.  The FSM is the part of it  *)
(* the watcher meets: the states Halt, WaitingFocus and Searching and the    *)
(* events Halt, AwaitFocus and FocusAcquired.  A window title is a name,     *)
(* written with or without capitals and surrounding blanks.                  *)

\* number of times the user asks the machine to wait for the focus
MaxAwaits == 2

\* number of events the user sends
MaxUserEvents == 4

\* a window title
Title(name, upper, padded) == [name |-> name, upper |-> upper, padded |-> padded]

\* strings.TrimSpace and strings.ToLower
TrimSpace(t) == [t EXCEPT !.padded = FALSE]
ToLower(t) == [t EXCEPT !.upper = FALSE]

\* the title ""
NoTitle == Title("", FALSE, FALSE)

\* the titles of the foreground window: none, another window's, the game's
\* as the system reports it, and the game's in small letters
Titles ==
    {NoTitle, Title("other", TRUE, FALSE), Title("gamewindow", TRUE, TRUE),
     Title("gamewindow", FALSE, FALSE)}

\* w.Selected(): the title the user selected, as app.Run passes it
Selected == TrimSpace(ToLower(Title("gamewindow", TRUE, FALSE)))

\* a goroutine that was never started; a polling goroutine is at its select on
\* the channel done, or on its way out of poll with the title it read and the
\* title seen before it
NoPoller == [pc |-> "none", done |-> 0, title |-> NoTitle, last |-> NoTitle]

\* NewFocusWatcher, the FSM in Halt and its worker idle; done is the number
\* of the channel w.done holds (0: nil), closed the channels closed so far
NewFocusWatcher ==
    [state |-> StateHalt, events |-> <<>>, worker |-> "idle",
     running |-> FALSE, done |-> 0, closed |-> {}, fired |-> FALSE,
     lastTitle |-> NoTitle, title |-> NoTitle,
     pollers |-> [g \in 1..MaxAwaits |-> NoPoller],
     session |-> 0, sends |-> <<>>, user |-> 0, awaits |-> 0, panicked |-> FALSE]

\* w.start()
start(w) ==
    IF w.running THEN w
    ELSE [w EXCEPT !.done = w.done + 1, !.running = TRUE, !.fired = FALSE,
                   !.lastTitle = NoTitle,
                   !.pollers[w.done + 1] = [NoPoller EXCEPT !.pc = "select",
                                                            !.done = w.done + 1]]

\* w.stop() up to "if !w.running.Load() { return }", on the goroutine whose
\* position is the field at: it goes on to close(w.done) or returns to rest
stopLoad(w, closing, rest) == IF w.running THEN closing ELSE rest

\* "close(w.done); w.running.Store(false)": closing a closed channel panics
stopClose(w) ==
    IF w.done \in w.closed THEN [w EXCEPT !.panicked = TRUE]
    ELSE [w EXCEPT !.closed = @ \cup {w.done}, !.running = FALSE]

\* the FSM's worker on an event: the state after it, and whether a
\* transition was made and the listeners were called
fsmStep(s, e) ==
    IF e = "evtHalt" THEN <<StateHalt, TRUE>>
    ELSE IF e = "evtAwaitFocus" /\ s = StateHalt THEN <<StateWaitingFocus, TRUE>>
    ELSE IF e = "evtFocusAcquired" /\ s = StateWaitingFocus THEN <<StateSearching, TRUE>>
    ELSE <<s, FALSE>>

\* poll up to the call of EventFocusAcquired: <<the watcher's fields after
\* it, whether the event is sent>>
poll(w) ==
    IF w.fired \/ w.state # StateWaitingFocus THEN <<w, FALSE>>
    ELSE LET fgTitle == TrimSpace(w.title)
             selected == TrimSpace(ToLower(Selected))
             current == ToLower(fgTitle)
         IN IF fgTitle.name = "" \/ selected.name = "" THEN <<w, FALSE>>
            ELSE IF current # w.lastTitle
                 THEN <<[w EXCEPT !.lastTitle = current], current = selected>>
                 ELSE <<w, FALSE>>

----------------------------------------------------------------------------
(* Close (fsm.go): f.events is open or closed, f.closed is the flag the      *)
(* worker sets when its loop over the channel has ended, and a send on the   *)
(* closed channel, or a second close of it, panics on the calling goroutine, *)
(* which has no recover: the process ends.                                   *)

\* number of calls of Close
MaxCloses == 2

\* the channel as NewFSM makes it, the worker in its loop
Open == [chan |-> "open", closed |-> FALSE, worker |-> "running",
         closes |-> 0, late |-> 0, panicked |-> FALSE]

\* FishingFSM.Close, the channel's part: nothing when f.closed is set, else
\* close(f.events)
close(c) ==
    IF c.closed THEN c
    ELSE IF c.chan = "closed" THEN [c EXCEPT !.panicked = TRUE]
    ELSE [c EXCEPT !.chan = "closed"]

\* "f.events <- e" of a public event sender called after Close
sendClosed(c) ==
    IF c.chan = "closed" THEN [c EXCEPT !.panicked = TRUE, !.late = @ + 1] ELSE c

----------------------------------------------------------------------------
(* The region of interest (ui/images/roi_extractor.go).  A frame is nil or  *)
(* known by its bounds, an image.Rectangle; the integers are small, so that *)
(* no sum overflows.                                                        *)

\* image.Rect for x0 <= x1 and y0 <= y1
Rectangle(x0, y0, x1, y1) == [MinX |-> x0, MinY |-> y0, MaxX |-> x1, MaxY |-> y1]

\* image.Rectangle{}
ZR == Rectangle(0, 0, 0, 0)

Dx(r) == r.MaxX - r.MinX
Dy(r) == r.MaxY - r.MinY

\* Rectangle.Empty
Empty(r) == r.MinX >= r.MaxX \/ r.MinY >= r.MaxY

\* Rectangle.Intersect: the zero rectangle when the two do not overlap
Intersect(r, s) ==
    LET t == Rectangle(max(r.MinX, s.MinX), max(r.MinY, s.MinY),
                       min(r.MaxX, s.MaxX), min(r.MaxY, s.MaxY))
    IN IF Empty(t) THEN ZR ELSE t

\* Rectangle.In: every point of r is in s
In(r, s) ==
    Empty(r) \/ (s.MinX <= r.MinX /\ r.MaxX <= s.MaxX /\ s.MinY <= r.MinY /\ r.MaxY <= s.MaxY)

\* a nil *image.RGBA
NilFrame == [nil |-> TRUE]

\* image.NewRGBA(r), or any *image.RGBA with these bounds
RGBA(r) == [nil |-> FALSE, Rect |-> r]

\* (*image.RGBA).SubImage: the part of the image inside r, an empty image
\* when there is none
SubImage(frame, r) == RGBA(Intersect(r, frame.Rect))

\* ExtractROI: the image, the rectangle and whether the error is non-nil
ExtractROI(frame, cx, cy, size) ==
    IF frame.nil THEN [img |-> NilFrame, rect |-> ZR, err |-> TRUE]
    ELSE LET b == frame.Rect
             sz == IF size < 1 THEN 1 ELSE size
             half == sz \div 2
             x0 == IF cx - half < 0 THEN 0 ELSE cx - half
             y0 == IF cy - half < 0 THEN 0 ELSE cy - half
             w0 == IF x0 + sz > Dx(b) THEN Dx(b) - x0 ELSE sz
             h0 == IF y0 + sz > Dy(b) THEN Dy(b) - y0 ELSE sz
             w == IF w0 < 1 THEN 1 ELSE w0
             h == IF h0 < 1 THEN 1 ELSE h0
             r == Rectangle(x0, y0, x0 + w, y0 + h)
         IN [img |-> SubImage(frame, r), rect |-> r, err |-> FALSE]

\* the frames ExtractROI is called with: nil, and the frames of 4x3 pixels
\* and of one pixel that a capture returns
RoiFrames == {NilFrame, RGBA(Rectangle(0, 0, 4, 3)), RGBA(Rectangle(0, 0, 1, 1))}

\* the centres and sizes it is called with
RoiCoords == (0 - 2)..6
RoiSizes == (0 - 1)..6

\* no call of ExtractROI has been made
NoExtract == [pc |-> "idle"]

\* the ui packages at rest
UiInit ==
    /\ roi = NoExtract
    /\ fp = NewFSMPresenter
    /\ fw = NewFocusWatcher
    /\ cl = Open

----------------------------------------------------------------------------
(* NewFSM *)

\* f.cooldownDuration as NewFSM computes it from cfg
cooldownDuration ==
    IF ~cfg.nil /\ cfg.CooldownSeconds > 0
    THEN cfg.CooldownSeconds * Second
    ELSE DefaultCooldown

\* NewBiteDetector followed by Reset: the detector the FSM creates on entering
\* Monitoring.  The factory is always called with a nil configuration, so the
\* detector runs on config.DefaultConfig().
NewBiteDetector ==
    [nil |-> FALSE, triggered |-> FALSE, elapsed |-> 0,
     MaxCastDurationSeconds |-> DefaultMaxCastDurationSeconds]

\* BiteDetector.Reset: restarts the monitoring clock and clears the trigger
Reset(b) == [b EXCEPT !.triggered = FALSE, !.elapsed = 0]

\* BiteDetector.FeedFrame on a non-nil frame: <<detector after the call, result>>.
\* motion tells whether the frame is one the detector's candidate test accepts.
FeedFrame(b, motion) ==
    IF b.triggered THEN <<b, FALSE>>
    ELSE IF motion THEN <<[b EXCEPT !.triggered = TRUE], TRUE>>
    ELSE <<b, FALSE>>

\* a detector that never reports the monitoring timeout
TargetLostHeuristicNever(b) == FALSE

\* BiteDetector.TargetLostHeuristic
TargetLostHeuristic(b) ==
    IF b.MaxCastDurationSeconds <= 0 THEN FALSE
    ELSE b.elapsed >= b.MaxCastDurationSeconds * Second

FsmInit ==
    /\ state = StateHalt
    /\ events = <<>>
    /\ listeners = <<>>
    /\ coordX = 0
    /\ coordY = 0
    /\ coordSet = FALSE
    /\ cooldownUntil = Zero
    /\ searchTimer = NoTimer
    /\ cooldownTimer = NoTimer
    /\ searchCb = FALSE
    /\ cooldownCb = FALSE
    /\ biteDetector = NoDetector
    /\ \E s \in Setups : cfg = s[1] /\ actions = s[2]
    /\ pc = "idle"
    /\ trPrev = StateHalt
    /\ trNext = StateHalt
    /\ li = 1
    /\ fired = {}
    /\ calls = <<>>
    /\ bd = NewDetector
    /\ ref = NewDetector
    /\ hist = NoFrames(0, FALSE)

\* the FSM after NewFSM; no detection call has been made
Init ==
    /\ FsmInit
    /\ sg = NoScales
    /\ ms = NoSearch
    /\ tc = NoRequests
    /\ nc = NoCall
    /\ UiInit

----------------------------------------------------------------------------
(* transition *)

\* the fields of the FishingFSM that loop() and transition() read and write,
\* with the worker's position and the goroutines started for the current event
Fsm ==
    [state |-> state, coordX |-> coordX, coordY |-> coordY, coordSet |-> coordSet,
     cooldownUntil |-> cooldownUntil, searchTimer |-> searchTimer,
     cooldownTimer |-> cooldownTimer, cooldownCb |-> cooldownCb,
     biteDetector |-> biteDetector, fired |-> fired,
     pc |-> pc, trPrev |-> trPrev, trNext |-> trNext, li |-> li]

\* time.AfterFunc(d, cb): the new timer's units left; a timer with d <= 0 expires at once
AfterFunc(d) == IF d > 0 THEN d ELSE 0

\* time.Until(until)
Until(until) == IF until = Zero THEN 0 ELSE until

\* a transition that leaves the cooldown timer running
stopTimersSearchOnly(f, next) ==
    [f EXCEPT !.searchTimer = IF f.state = StateSearching /\ next # StateSearching
                              THEN NoTimer ELSE @]

\* the timers after "stop ... when leaving": the search timer is stopped and
\* dropped on leaving Searching, the cooldown timer on leaving Cooldown
stopTimers(f, next) ==
    [f EXCEPT !.searchTimer = IF f.state = StateSearching /\ next # StateSearching
                              THEN NoTimer ELSE @,
              !.cooldownTimer = IF f.state = StateCooldown /\ next # StateCooldown
                                THEN NoTimer ELSE @]

\* case StateCasting: the cast key press goroutine
enterCasting(f) ==
    IF ~cfg.nil /\ actions.PressKey /\ actions.ParseVK
    THEN [f EXCEPT !.fired = @ \cup {"cast"}]
    ELSE f

\* the cooldown timer armed for the deadline until (the old one is stopped)
armCooldown(f, until) ==
    [f EXCEPT !.cooldownUntil = until,
              !.cooldownTimer = AfterFunc(Until(until)),
              !.cooldownCb = @ \/ (Until(until) <= 0)]

\* case StateReeling: the reel goroutine, the cooldown deadline and its timer
enterReeling(f) ==
    armCooldown([f EXCEPT !.fired = IF f.coordSet THEN @ \cup {"reel"} ELSE @],
                cooldownDuration + ReelDelay)

\* case StateCooldown
enterCooldown(f) ==
    armCooldown(f, IF f.cooldownUntil = Zero THEN cooldownDuration ELSE f.cooldownUntil)

\* case StateMonitoring: the pointer move goroutine and a fresh, reset detector
enterMonitoring(f) ==
    [f EXCEPT !.fired = IF f.coordSet /\ actions.MoveCursor THEN @ \cup {"move"} ELSE @,
              !.biteDetector = Reset(NewBiteDetector)]

\* the switch on next (fsm.go 144-231)
entryAction(f, next) ==
    CASE next = StateCasting -> enterCasting(f)
      [] next = StateReeling -> enterReeling(f)
      [] next = StateCooldown -> enterCooldown(f)
      [] next = StateMonitoring -> enterMonitoring(f)
      [] OTHER -> f

\* a transition that writes Reeling to f.state
finalStateKeep(next) == next

\* the state transition(next) writes to f.state: "next = StateCooldown" in
\* the Reeling case
finalState(next) == IF next = StateReeling THEN StateCooldown ELSE next

\* a transition that arms the search timer whatever the state it enters
armSearchAlways(f) == [f EXCEPT !.searchTimer = AfterFunc(SearchTimeout)]

\* "start / restart search timer" once f.state is Searching
armSearch(f) ==
    IF f.state = StateSearching
    THEN [f EXCEPT !.searchTimer = AfterFunc(SearchTimeout)]
    ELSE f

\* transition(next) up to its listener loop
transition(f, next) ==
    IF f.state = next THEN f
    ELSE LET g == entryAction(stopTimers(f, next), next)
         IN [armSearch([g EXCEPT !.state = finalState(next)])
                EXCEPT !.pc = "notify", !.trPrev = f.state,
                       !.trNext = finalState(next), !.li = 1]

\* a listener loop that calls each listener twice
callListenerTwice(cs, l, prev, next) == Append(Append(cs, <<l, prev, next>>), <<l, prev, next>>)

\* l(prev, next): the listener calls of the current event, with one more
callListener(cs, l, prev, next) == Append(cs, <<l, prev, next>>)

\* a transition that returns from Casting without the nested transition
afterListenersReturn(f) == [f EXCEPT !.pc = "idle"]

\* the end of transition(), after the listener loop: the nested
\* transition(StateSearching) out of Casting, or the return to loop()
afterListeners(f) ==
    IF f.state = StateCasting
    THEN transition(f, StateSearching)
    ELSE [f EXCEPT !.pc = "idle"]

\* TargetCoordinates(): <<x, y, ok>>
TargetCoordinates ==
    IF ~coordSet THEN <<0, 0, FALSE>> ELSE <<coordX, coordY, TRUE>>

\* the worker's fields after a step that leaves the FishingFSM as f; the
\* locals of transition() and the record of the event end with its handling
Becomes(f) ==
    /\ state' = f.state
    /\ coordX' = f.coordX
    /\ coordY' = f.coordY
    /\ coordSet' = f.coordSet
    /\ cooldownUntil' = f.cooldownUntil
    /\ searchTimer' = f.searchTimer
    /\ cooldownTimer' = f.cooldownTimer
    /\ cooldownCb' = f.cooldownCb
    /\ biteDetector' = f.biteDetector
    /\ pc' = f.pc
    /\ trPrev' = IF f.pc = "idle" THEN StateHalt ELSE f.trPrev
    /\ trNext' = IF f.pc = "idle" THEN StateHalt ELSE f.trNext
    /\ li' = IF f.pc = "idle" THEN 1 ELSE f.li
    /\ fired' = IF f.pc = "idle" THEN {} ELSE f.fired

----------------------------------------------------------------------------
(* loop *)

\* case evtTargetAcquired
onTargetAcquired(f) ==
    IF f.state = StateSearching THEN transition(f, StateMonitoring) ELSE f

\* case evtTargetAcquiredAt
onTargetAcquiredAt(f, x, y) ==
    LET g == [f EXCEPT !.coordX = x, !.coordY = y, !.coordSet = TRUE]
    IN IF g.state = StateSearching THEN transition(g, StateMonitoring) ELSE g

\* case evtTargetLost
onTargetLost(f) ==
    IF f.state = StateMonitoring THEN transition(f, StateCasting) ELSE f

\* case evtHalt
onHalt(f) ==
    transition([f EXCEPT !.cooldownUntil = Zero, !.coordSet = FALSE,
                         !.biteDetector = IF @.nil THEN @ ELSE Reset(@)],
               StateHalt)

\* a loop that reels on a bite in whatever state
onFishBiteAlways(f) == transition(f, StateReeling)

\* case evtFishBite
onFishBite(f) ==
    IF f.state = StateMonitoring THEN transition(f, StateReeling) ELSE f

\* case evtMonitoringFrame (the frame is not nil: ProcessMonitoringFrame sends no nil frame)
onMonitoringFrame(f, motion) ==
    IF f.state = StateMonitoring /\ ~f.biteDetector.nil
    THEN LET r == FeedFrame(f.biteDetector, motion)
             g == [f EXCEPT !.biteDetector = r[1]]
         IN IF r[2] THEN transition(g, StateReeling)
            ELSE IF TargetLostHeuristic(g.biteDetector)
                 THEN transition(g, StateCasting)
                 ELSE g
    ELSE f

\* case evtFocusAcquired
onFocusAcquired(f) ==
    IF f.state = StateWaitingFocus THEN transition(f, StateSearching) ELSE f

\* case evtAwaitFocus
onAwaitFocus(f) ==
    IF f.state = StateHalt THEN transition(f, StateWaitingFocus) ELSE f

\* case evtForceCast
onForceCast(f) ==
    IF f.state # StateCasting THEN transition(f, StateCasting) ELSE f

\* case evtCancel
onCancel(f) == [f EXCEPT !.cooldownUntil = Zero]

\* one iteration of loop(): the switch on the received event, up to the
\* listener loop of the transition it makes
handle(f, e) ==
    CASE e.type = "evtAddListener" -> f
      [] e.type = "evtTargetAcquired" -> onTargetAcquired(f)
      [] e.type = "evtTargetAcquiredAt" -> onTargetAcquiredAt(f, e.x, e.y)
      [] e.type = "evtTargetLost" -> onTargetLost(f)
      [] e.type = "evtHalt" -> onHalt(f)
      [] e.type = "evtFishBite" -> onFishBite(f)
      [] e.type = "evtMonitoringFrame" -> onMonitoringFrame(f, e.motion)
      [] e.type = "evtFocusAcquired" -> onFocusAcquired(f)
      [] e.type = "evtAwaitFocus" -> onAwaitFocus(f)
      [] e.type = "evtForceCast" -> onForceCast(f)
      [] e.type = "evtCancel" -> onCancel(f)
      [] OTHER -> f

\* case evtAddListener: f.listeners = append(f.listeners, e.l)
addListener(ls, e) == IF e.type = "evtAddListener" THEN Append(ls, e.l) ELSE ls

\* the worker receives the oldest event of the channel and handles it
Receive ==
    /\ pc = "idle"
    /\ events # <<>>
    /\ Becomes(handle(Fsm, Head(events)))
    /\ listeners' = addListener(listeners, Head(events))
    /\ events' = Tail(events)
    /\ calls' = <<>>
    /\ UNCHANGED <<searchCb, cfg, actions, bd, ref, hist, captureVars, uiVars, cl>>

\* the listener loop of transition(): the worker calls the next listener
Notify ==
    /\ pc = "notify"
    /\ li <= Len(listeners)
    /\ calls' = callListener(calls, listeners[li], trPrev, trNext)
    /\ li' = li + 1
    /\ UNCHANGED <<state, events, listeners, coordX, coordY, coordSet, cooldownUntil,
                   searchTimer, cooldownTimer, searchCb, cooldownCb, biteDetector,
                   cfg, actions, bd, ref, hist, captureVars, uiVars, cl, pc, trPrev, trNext, fired>>

\* the worker leaves the listener loop
Return ==
    /\ pc = "notify"
    /\ li > Len(listeners)
    /\ Becomes(afterListeners(Fsm))
    /\ calls' = IF pc' = "idle" THEN <<>> ELSE calls
    /\ UNCHANGED <<events, listeners, searchCb, cfg, actions, bd, ref, hist, captureVars, uiVars, cl>>

----------------------------------------------------------------------------
(* Callers and timers *)

\* f.events <- e: a blocking channel send, possible while the buffer has room
Send(e) ==
    /\ Len(events) < QueueCap
    /\ events' = Append(events, e)
    /\ UNCHANGED <<state, listeners, coordX, coordY, coordSet, cooldownUntil,
                   searchTimer, cooldownTimer, searchCb, cooldownCb, biteDetector,
                   cfg, actions, bd, ref, hist, captureVars, uiVars, cl, pc, trPrev, trNext, li, fired, calls>>

\* the listeners registered so far, queued registrations included
Registered ==
    Len(listeners) + Cardinality({i \in DOMAIN events : events[i].type = "evtAddListener"})

AddListener == Registered < MaxListeners /\ Send(evtAddListener(Registered + 1))
EventTargetAcquired == Send(evtTargetAcquired)
EventTargetAcquiredAt == \E c \in Coords : Send(evtTargetAcquiredAt(c[1], c[2]))
EventTargetLost == Send(evtTargetLost)
EventHalt == Send(evtHalt)
EventFishBite == Send(evtFishBite)
EventFocusAcquired == Send(evtFocusAcquired)
EventAwaitFocus == Send(evtAwaitFocus)
ForceCast == Send(evtForceCast)
ProcessMonitoringFrame == \E motion \in BOOLEAN : Send(evtMonitoringFrame(motion))

\* a timer send that puts the event in front of the waiting ones
TrySendFront(q, e) == IF Len(q) < QueueCap THEN <<e>> \o q ELSE q

\* select { case f.events <- evtForceCast{}: default: }: the send is dropped
\* when the buffer is full
TrySend(q, e) == IF Len(q) < QueueCap THEN Append(q, e) ELSE q

\* a search timer callback that sends nothing
searchTimerCallbackSilent(s, q) == q

\* the body of the search timer's callback: the channel after it
searchTimerCallback(s, q) ==
    IF s = StateSearching THEN TrySend(q, evtForceCast) ELSE q

\* a cooldown timer callback that checks for the wrong state
cooldownTimerCallbackSearching(s, q) ==
    IF s = StateSearching THEN TrySend(q, evtForceCast) ELSE q

\* the body of the cooldown timer's callback: the channel after it
cooldownTimerCallback(s, q) ==
    IF s = StateCooldown THEN TrySend(q, evtForceCast) ELSE q

\* the callback of the search timer runs, on its own goroutine
SearchTimerFired ==
    /\ searchCb
    /\ searchCb' = FALSE
    /\ events' = searchTimerCallback(state, events)
    /\ UNCHANGED <<state, listeners, coordX, coordY, coordSet, cooldownUntil,
                   searchTimer, cooldownTimer, cooldownCb, biteDetector,
                   cfg, actions, bd, ref, hist, captureVars, uiVars, cl, pc, trPrev, trNext, li, fired, calls>>

\* the callback of the cooldown timer runs, on its own goroutine
CooldownTimerFired ==
    /\ cooldownCb
    /\ cooldownCb' = FALSE
    /\ events' = cooldownTimerCallback(state, events)
    /\ UNCHANGED <<state, listeners, coordX, coordY, coordSet, cooldownUntil,
                   searchTimer, cooldownTimer, searchCb, biteDetector,
                   cfg, actions, bd, ref, hist, captureVars, uiVars, cl, pc, trPrev, trNext, li, fired, calls>>

\* the instants time can advance to: the pending deadlines
Deadlines ==
    {d \in {searchTimer, cooldownTimer} : d > 0}
    \cup (IF state = StateMonitoring /\ ~biteDetector.nil
             /\ biteDetector.elapsed < biteDetector.MaxCastDurationSeconds * Second
          THEN {biteDetector.MaxCastDurationSeconds * Second - biteDetector.elapsed}
          ELSE {})

Min(S) == CHOOSE d \in S : \A e \in S : d <= e

Left(t, d) == IF t > 0 THEN (IF t > d THEN t - d ELSE 0) ELSE t

\* time passes up to the next pending deadline; a timer that reaches its
\* deadline starts its callback goroutine.  A started callback runs before
\* the next deadline is reached.
Tick ==
    /\ ~searchCb /\ ~cooldownCb
    /\ Deadlines # {}
    /\ LET d == Min(Deadlines)
       IN /\ searchTimer' = Left(searchTimer, d)
          /\ cooldownTimer' = Left(cooldownTimer, d)
          /\ cooldownUntil' = Left(cooldownUntil, d)
          /\ searchCb' = (searchTimer > 0 /\ searchTimer <= d)
          /\ cooldownCb' = (cooldownTimer > 0 /\ cooldownTimer <= d)
          /\ biteDetector' =
                IF state = StateMonitoring /\ ~biteDetector.nil
                THEN [biteDetector EXCEPT !.elapsed = @ + d]
                ELSE biteDetector
    /\ UNCHANGED <<state, events, listeners, coordX, coordY, coordSet,
                   cfg, actions, bd, ref, hist, captureVars, uiVars, cl, pc, trPrev, trNext, li, fired, calls>>

Next ==
    \/ AddListener
    \/ EventTargetAcquired
    \/ EventTargetAcquiredAt
    \/ EventTargetLost
    \/ EventHalt
    \/ EventFishBite
    \/ EventFocusAcquired
    \/ EventAwaitFocus
    \/ ForceCast
    \/ ProcessMonitoringFrame
    \/ Receive
    \/ Notify
    \/ Return
    \/ SearchTimerFired
    \/ CooldownTimerFired
    \/ Tick

Spec == Init /\ [][Next]_vars

----------------------------------------------------------------------------
(* The application: the callers of the FSM are the capture presenter         *)
(* (EventAwaitFocus, EventHalt), the detection presenter                     *)
(* (EventTargetAcquiredAt, ProcessMonitoringFrame), the focus watcher        *)
(* (EventFocusAcquired) and app.Run (AddListener); every ForceCast comes     *)
(* from a timer                                                              *)

AppNext ==
    \/ AddListener
    \/ EventAwaitFocus
    \/ EventHalt
    \/ EventTargetAcquiredAt
    \/ ProcessMonitoringFrame
    \/ EventFocusAcquired
    \/ Receive
    \/ Notify
    \/ Return
    \/ SearchTimerFired
    \/ CooldownTimerFired
    \/ Tick

AppSpec == Init /\ [][AppNext]_vars

\* the application with the scheduling the Go runtime gives: the worker
\* goroutine and the timer callback goroutines run when they can, time passes;
\* no caller is obliged to send anything
AppFairSpec ==
    /\ AppSpec
    /\ WF_vars(Receive)
    /\ WF_vars(Notify)
    /\ WF_vars(Return)
    /\ WF_vars(SearchTimerFired)
    /\ WF_vars(CooldownTimerFired)
    /\ WF_vars(Tick)

----------------------------------------------------------------------------
(* The test scenario: a caller that waits for a state before it sends the   *)
(* next event, as fsm_test.go does with waitForState                        *)

\* the caller sees the worker at rest in state s
Settled(s) == state = s /\ pc = "idle" /\ events = <<>>

ClientAwaitFocus == Settled(StateHalt) /\ Send(evtAwaitFocus)

ClientFocusAcquired == Settled(StateWaitingFocus) /\ Send(evtFocusAcquired)

\* the target is found before the search timeout
ClientTargetAcquiredAt ==
    /\ Settled(StateSearching)
    /\ searchTimer > 0
    /\ \E c \in Coords : Send(evtTargetAcquiredAt(c[1], c[2]))

ClientFishBite == Settled(StateMonitoring) /\ Send(evtFishBite)

\* time passes as in Tick, once the worker has handled what was sent: the
\* timers run for seconds, the worker takes far less for an event
ClientTick == pc = "idle" /\ events = <<>> /\ Tick

\* the listeners are registered before the scenario starts
ClientAddListener == state = StateHalt /\ AddListener

CycleNext ==
    \/ ClientAddListener
    \/ ClientAwaitFocus
    \/ ClientFocusAcquired
    \/ ClientTargetAcquiredAt
    \/ ClientFishBite
    \/ Receive
    \/ Notify
    \/ Return
    \/ SearchTimerFired
    \/ CooldownTimerFired
    \/ ClientTick

\* the goroutines (worker, timer callbacks) are scheduled, time passes, and
\* the caller sends each event of the scenario
CycleSpec ==
    /\ Init
    /\ [][CycleNext]_vars
    /\ WF_vars(Receive)
    /\ WF_vars(Notify)
    /\ WF_vars(Return)
    /\ WF_vars(SearchTimerFired)
    /\ WF_vars(CooldownTimerFired)
    /\ WF_vars(ClientTick)
    /\ WF_vars(ClientAwaitFocus)
    /\ WF_vars(ClientFocusAcquired)
    /\ SF_vars(ClientTargetAcquiredAt)
    /\ WF_vars(ClientFishBite)

----------------------------------------------------------------------------
(* A monitoring session: the caller of the test scenario that, once the     *)
(* machine monitors, feeds it the captured frames, as the detection         *)
(* presenter does for every frame; time passes in steps of any length up to *)
(* the next deadline                                                        *)

\* time passes by d units, d no more than the time to the next deadline
Advance(d) ==
    /\ ~searchCb /\ ~cooldownCb
    /\ searchTimer' = Left(searchTimer, d)
    /\ cooldownTimer' = Left(cooldownTimer, d)
    /\ cooldownUntil' = Left(cooldownUntil, d)
    /\ searchCb' = (searchTimer > 0 /\ searchTimer <= d)
    /\ cooldownCb' = (cooldownTimer > 0 /\ cooldownTimer <= d)
    /\ biteDetector' =
          IF state = StateMonitoring /\ ~biteDetector.nil
          THEN [biteDetector EXCEPT !.elapsed = @ + d]
          ELSE biteDetector
    /\ UNCHANGED <<state, events, listeners, coordX, coordY, coordSet,
                   cfg, actions, bd, ref, hist, captureVars, uiVars, cl, pc, trPrev, trNext, li, fired, calls>>

\* time passes once the worker has handled what was sent
ClientClock ==
    /\ pc = "idle"
    /\ events = <<>>
    /\ Deadlines # {}
    /\ \E d \in 1..Min(Deadlines) : Advance(d)

\* the next captured frame is passed on while the machine monitors
ClientMonitoringFrame == Settled(StateMonitoring) /\ ProcessMonitoringFrame

MonitorNext ==
    \/ ClientAddListener
    \/ ClientAwaitFocus
    \/ ClientFocusAcquired
    \/ ClientTargetAcquiredAt
    \/ ClientMonitoringFrame
    \/ Receive
    \/ Notify
    \/ Return
    \/ SearchTimerFired
    \/ CooldownTimerFired
    \/ ClientClock

MonitorSpec ==
    /\ Init
    /\ [][MonitorNext]_vars
    /\ WF_vars(Receive)
    /\ WF_vars(Notify)
    /\ WF_vars(Return)
    /\ WF_vars(SearchTimerFired)
    /\ WF_vars(CooldownTimerFired)
    /\ SF_vars(ClientClock)
    /\ WF_vars(ClientAwaitFocus)
    /\ WF_vars(ClientFocusAcquired)
    /\ SF_vars(ClientTargetAcquiredAt)
    /\ SF_vars(ClientMonitoringFrame)

----------------------------------------------------------------------------
(* Panics in the action callbacks.  ParseVK is called by the worker itself  *)
(* in the Casting case; PressKey, MoveCursor and ClickRight are called on   *)
(* goroutines of their own.  A panic unwinds the goroutine it happens on up *)
(* to a deferred recover; a goroutine without one terminates the process.   *)

\* the FishingFSM when ParseVK panics in transition(StateCasting), g being what
\* the handler would have made of it: the timers of the state are stopped,
\* f.state is not written, no goroutine is started, and the panic ends loop()
\* in the recover of the goroutine NewFSM started
parseVKPanic(g) == [g EXCEPT !.state = state, !.fired = {}, !.pc = "stopped"]

\* the worker receives an event that casts, and ParseVK panics
ParseVKPanics ==
    /\ pc = "idle"
    /\ events # <<>>
    /\ ~cfg.nil /\ actions.PressKey /\ actions.ParseVK
    /\ handle(Fsm, Head(events)).state = StateCasting
    /\ Becomes(parseVKPanic(handle(Fsm, Head(events))))
    /\ listeners' = listeners
    /\ events' = Tail(events)
    /\ calls' = <<>>
    /\ UNCHANGED <<searchCb, cfg, actions, bd, ref, hist, captureVars, uiVars, cl>>

\* the goroutine g of the current event panics under "defer recoverLog": the
\* panic is logged and the goroutine ends
recoverLog(g) ==
    /\ pc = "notify"
    /\ g \in fired
    /\ fired' = (fired \ {g}) \cup {g \o " goroutine panic"}
    /\ UNCHANGED <<state, events, listeners, coordX, coordY, coordSet, cooldownUntil,
                   searchTimer, cooldownTimer, searchCb, cooldownCb, biteDetector,
                   cfg, actions, bd, ref, hist, captureVars, uiVars, cl, pc, trPrev, trNext, li, calls>>

\* PressKey panics on the cast goroutine
PressKeyPanics == recoverLog("cast")

\* MoveCursor or ClickRight panics on the reel goroutine
ReelPanics == recoverLog("reel")

\* MoveCursor panics on the goroutine of the Monitoring case, which defers no
\* recover: the process terminates
MoveCursorPanics ==
    /\ pc = "notify"
    /\ "move" \in fired
    /\ pc' = "crashed"
    /\ UNCHANGED <<state, events, listeners, coordX, coordY, coordSet, cooldownUntil,
                   searchTimer, cooldownTimer, searchCb, cooldownCb, biteDetector,
                   cfg, actions, bd, ref, hist, captureVars, uiVars, cl, trPrev, trNext, li, fired, calls>>

\* the test scenario with callbacks that may panic; nothing runs in a
\* terminated process
PanicNext ==
    \/ (pc # "crashed" /\ CycleNext)
    \/ ParseVKPanics
    \/ PressKeyPanics
    \/ ReelPanics
    \/ MoveCursorPanics

PanicSpec == Init /\ [][PanicNext]_vars

----------------------------------------------------------------------------
(* The detector's test: frames are fed to the detector bd, which is Reset   *)
(* at some point and fed again; ref is a detector constructed at that point *)
(* and fed the same frames (bite_detector_test.go)                          *)

\* the variables of the FSM
fsmVars == <<state, events, listeners, coordX, coordY, coordSet, cooldownUntil,
             searchTimer, cooldownTimer, searchCb, cooldownCb, biteDetector,
             cfg, actions, pc, trPrev, trNext, li, fired, calls, cl>>

\* no pixel of the frame g differs from the same pixel of the frame f by more
\* than the per-pixel threshold, in any channel
Within(f, g) ==
    /\ Len(f) = Len(g)
    /\ \A i \in 1..Len(f) : \A ch \in 1..3 :
          Abs(g[i][ch] - f[i][ch]) <= pixelDiffThreshold

\* bd.FeedFrame(frame, t), and the same call on ref
Feed ==
    /\ Len(hist.frames) < MaxFrames
    /\ \E frame \in Frames :
          /\ bd' = DetectorFeedFrame(bd, frame)[1]
          /\ ref' = DetectorFeedFrame(ref, frame)[1]
          /\ hist' = [hist EXCEPT
                !.frames = Append(@, frame),
                !.got = Append(@, DetectorFeedFrame(bd, frame)[2]),
                !.want = Append(@, DetectorFeedFrame(ref, frame)[2]),
                !.quiet = @ /\ (hist.frames = <<>>
                                 \/ Within(hist.frames[Len(hist.frames)], frame))]
    /\ UNCHANGED <<fsmVars, captureVars, uiVars>>

\* bd.Reset(), and a new detector for ref
ResetDetector ==
    /\ hist.resets < MaxResets
    /\ hist.frames # <<>>
    /\ bd' = DetectorReset(bd)
    /\ ref' = NewDetector
    /\ hist' = NoFrames(hist.resets + 1, bd.triggered)
    /\ UNCHANGED <<fsmVars, captureVars, uiVars>>

DetectorNext ==
    \/ Feed
    \/ ResetDetector

\* bd := NewBiteDetector(nil, nil), the FSM at rest
DetectorInit == Init /\ cfg = NilCfg

DetectorSpec == DetectorInit /\ [][DetectorNext]_vars

----------------------------------------------------------------------------
(* Scale generation: the first lines of MultiScaleMatchParallel, one step   *)
(* per iteration of the loop                                                *)

\* if len(opts.Scales) == 0 { if ... { maxSteps := ...; scales := make(..., 0, maxSteps)
ScalesBegin ==
    /\ sg.pc = "start"
    /\ IF Len(sg.opts.Scales) # 0 \/ ~adaptive(sg.opts)
       THEN sg' = [sg EXCEPT !.pc = "done"]
       ELSE \E m \in maxSteps(sg.opts) :
               IF negative(m)
               THEN sg' = [sg EXCEPT !.pc = "panic"]
               ELSE sg' = [sg EXCEPT !.pc = "loop", !.generated = TRUE, !.maxSteps = m.n,
                                     !.s = sg.opts.MinScale, !.scales = <<>>]
    /\ UNCHANGED <<fsmVars, uiVars, bd, ref, hist, ms, tc, nc>>

\* scales = append(scales, ScaleSpec{Factor: s}); s += opts.ScaleStep
ScalesAppend ==
    /\ sg.pc = "loop"
    /\ loopsOn(sg)
    /\ sg' = [sg EXCEPT !.scales = Append(@, sg.s), !.s = @ + sg.opts.ScaleStep]
    /\ UNCHANGED <<fsmVars, uiVars, bd, ref, hist, ms, tc, nc>>

\* opts.Scales = scales
ScalesEnd ==
    /\ sg.pc = "loop"
    /\ ~loopsOn(sg)
    /\ sg' = [sg EXCEPT !.pc = "done", !.opts.Scales = sg.scales]
    /\ UNCHANGED <<fsmVars, uiVars, bd, ref, hist, ms, tc, nc>>

ScalesNext ==
    \/ ScalesBegin
    \/ ScalesAppend
    \/ ScalesEnd

\* a call of MultiScaleMatchParallel with any of the options
ScalesInit ==
    /\ FsmInit /\ cfg = NilCfg
    /\ \E o \in ScaleOptions : sg = Called(o)
    /\ ms = NoSearch
    /\ tc = NoRequests
    /\ nc = NoCall
    /\ UiInit

ScalesSpec == ScalesInit /\ [][ScalesNext]_vars

----------------------------------------------------------------------------
(* The multi-scale search: the dispatch loop, the goroutines it starts, the *)
(* goroutine that closes the channel and the aggregation, one step per      *)
(* channel operation or atomic operation                                   *)

\* for _, s := range opts.Scales: a factor <= 0 is passed over; otherwise
\* wg.Add(1), sem <- struct{}{} (blocks while the pool is full), go func
Dispatch ==
    /\ ms.pc = "dispatch"
    /\ ms.i <= Len(ms.opts.Scales)
    /\ IF ~ms.opts.Scales[ms.i].positive
       THEN ms' = [ms EXCEPT !.i = @ + 1]
       ELSE /\ ~semFull(ms)
            /\ ms' = [ms EXCEPT !.i = @ + 1, !.wg = @ + 1, !.sem = @ + 1,
                                !.w[ms.i].pc = "start"]
    /\ UNCHANGED <<fsmVars, uiVars, bd, ref, hist, sg, tc, nc>>

\* the loop is over: go func() { wg.Wait(); close(results) }()
StartCloser ==
    /\ ms.pc = "dispatch"
    /\ ms.i > Len(ms.opts.Scales)
    /\ ms' = [ms EXCEPT !.pc = "aggregate", !.closer = "wait"]
    /\ UNCHANGED <<fsmVars, uiVars, bd, ref, hist, sg, tc, nc>>

\* wg.Wait() returns; close(results)
Close ==
    /\ ms.closer = "wait"
    /\ ms.wg = 0
    /\ ms' = [ms EXCEPT !.closer = "done", !.closed = TRUE]
    /\ UNCHANGED <<fsmVars, uiVars, bd, ref, hist, sg, tc, nc>>

\* if atomic.LoadInt32(&earlyStop) == 1 { return }
WorkerStart(k) ==
    /\ ms.w[k].pc = "start"
    /\ ms' = IF skips(ms.earlyStop)
             THEN [ms EXCEPT !.w[k].pc = "release", !.w[k].skipped = TRUE]
             ELSE [ms EXCEPT !.w[k].pc = "match"]
    /\ UNCHANGED <<fsmVars, uiVars, bd, ref, hist, sg, tc, nc>>

\* scaledPc := getScaledTemplatePrecompFromBase(...); if scaledPc == nil { return }
\* res := matchTemplateNCCGrayIntegralPre(...); atomic.AddUint64(&scalesCount, 1)
WorkerMatch(k) ==
    /\ ms.w[k].pc = "match"
    /\ ~scans(ms.opts.Scales[k], ms.opts.NCC)
    /\ ms' = IF noPrecomp(ms.opts.Scales[k])
             THEN [ms EXCEPT !.w[k].pc = "release"]
             ELSE [ms EXCEPT !.w[k].pc = "claim", !.w[k].evaluated = TRUE,
                             !.w[k].res = matched(ms.opts.Scales[k], ms.opts.NCC, k),
                             !.scalesCount = @ + 1]
    /\ UNCHANGED <<fsmVars, uiVars, bd, ref, hist, sg, tc, nc>>

\* if opts.StopOnScore > 0 && res.Score >= opts.StopOnScore {
\*     if atomic.CompareAndSwapInt32(&earlyStop, 0, 1) { results <- msr }; return }
WorkerClaim(k) ==
    /\ ms.w[k].pc = "claim"
    /\ ms' = IF reaches(ms.w[k].res.Score, ms.opts)
             THEN IF cas(ms.earlyStop)[1]
                  THEN [ms EXCEPT !.earlyStop = cas(ms.earlyStop)[2],
                                  !.w[k].claimed = TRUE, !.w[k].pc = "send"]
                  ELSE [ms EXCEPT !.w[k].pc = "release"]
             ELSE [ms EXCEPT !.w[k].pc = "send"]
    /\ UNCHANGED <<fsmVars, uiVars, bd, ref, hist, sg, tc, nc>>

\* results <- msr
WorkerSend(k) ==
    /\ ms.w[k].pc = "send"
    /\ ~resultsFull(ms)
    /\ ms' = [ms EXCEPT !.results = Append(@, ms.w[k].res), !.w[k].sent = TRUE,
                        !.w[k].pc = "release"]
    /\ UNCHANGED <<fsmVars, uiVars, bd, ref, hist, sg, tc, nc>>

\* defer func() { <-sem }()
WorkerRelease(k) ==
    /\ ms.w[k].pc = "release"
    /\ ms' = [ms EXCEPT !.sem = @ - 1, !.w[k].pc = "exit"]
    /\ UNCHANGED <<fsmVars, uiVars, bd, ref, hist, sg, tc, nc>>

\* defer wg.Done()
WorkerDone(k) ==
    /\ ms.w[k].pc = "exit"
    /\ ms' = [ms EXCEPT !.wg = @ - 1, !.w[k].pc = "done"]
    /\ UNCHANGED <<fsmVars, uiVars, bd, ref, hist, sg, tc, nc>>

\* for r := range results { if r.Score > best.Score { best = r }
\*     if atomic.LoadInt32(&earlyStop) == 1 && r.Score >= opts.StopOnScore && ... { break } }
Aggregate ==
    /\ ms.pc = "aggregate"
    /\ ms.results # <<>>
    /\ LET r == Head(ms.results)
       IN ms' = [ms EXCEPT !.results = Tail(@), !.received = Append(@, r),
                           !.best = IF better(r, @) THEN r ELSE @,
                           !.pc = IF ms.earlyStop = 1 /\ reaches(r.Score, ms.opts)
                                  THEN "return" ELSE @]
    /\ UNCHANGED <<fsmVars, uiVars, bd, ref, hist, sg, tc, nc>>

\* the channel is closed and empty: the range ends
RangeEnds ==
    /\ ms.pc = "aggregate"
    /\ ms.results = <<>>
    /\ ms.closed
    /\ ms' = [ms EXCEPT !.pc = "return"]
    /\ UNCHANGED <<fsmVars, uiVars, bd, ref, hist, sg, tc, nc>>

\* return best
SearchReturns ==
    /\ ms.pc = "return"
    /\ ms' = [ms EXCEPT !.pc = "returned"]
    /\ UNCHANGED <<fsmVars, uiVars, bd, ref, hist, sg, tc, nc>>

SearchNext ==
    \/ Dispatch
    \/ StartCloser
    \/ Close
    \/ \E k \in 1..MaxScales : WorkerStart(k)
    \/ \E k \in 1..MaxScales : WorkerMatch(k)
    \/ \E k \in 1..MaxScales : WorkerClaim(k)
    \/ \E k \in 1..MaxScales : WorkerSend(k)
    \/ \E k \in 1..MaxScales : WorkerRelease(k)
    \/ \E k \in 1..MaxScales : WorkerDone(k)
    \/ Aggregate
    \/ RangeEnds
    \/ SearchReturns

\* a call of MultiScaleMatchParallel with any of the options, on any number of CPUs
SearchInit ==
    /\ FsmInit /\ cfg = NilCfg
    /\ sg = NoScales
    /\ \E o \in SearchOptions, n \in 1..MaxCPU : ms = Dispatching(o, n)
    /\ tc = NoRequests
    /\ nc = NoCall
    /\ UiInit

SearchSpec == SearchInit /\ [][SearchNext]_vars

\* every goroutine that can take a step is scheduled
SearchFairSpec ==
    /\ SearchSpec
    /\ WF_vars(Dispatch) /\ WF_vars(StartCloser) /\ WF_vars(Close)
    /\ \A k \in 1..MaxScales :
          /\ WF_vars(WorkerStart(k)) /\ WF_vars(WorkerMatch(k)) /\ WF_vars(WorkerClaim(k))
          /\ WF_vars(WorkerSend(k)) /\ WF_vars(WorkerRelease(k)) /\ WF_vars(WorkerDone(k))
    /\ WF_vars(Aggregate) /\ WF_vars(RangeEnds) /\ WF_vars(SearchReturns)

----------------------------------------------------------------------------
(* The template cache: goroutines that each ask for the precomputation of a *)
(* template and then for the one scaled by a factor, as a search and its    *)
(* workers do; one step per critical section of tmplCacheMu                 *)

\* getTemplatePrecomp: RLock, pc := tmplCacheByDim[key], RUnlock; a hit
\* returns, a miss builds a new precomp
BaseLookup(k) ==
    /\ tc.g[k].pc = "base"
    /\ LET key == <<tc.g[k].tmpl.W, tc.g[k].tmpl.H>>
       IN tc' = IF tc.cache[key] # NilPrecomp
                THEN [tc EXCEPT !.g[k].base = tc.cache[key], !.g[k].pc = "scaled"]
                ELSE [tc EXCEPT !.g[k].built = basePrecomp(tc.g[k].tmpl, k),
                                !.g[k].pc = "base insert"]
    /\ UNCHANGED <<fsmVars, uiVars, bd, ref, hist, sg, ms, nc>>

\* getTemplatePrecomp: Lock, insert unless present, Unlock, return pc
BaseInsert(k) ==
    /\ tc.g[k].pc = "base insert"
    /\ LET key == <<tc.g[k].tmpl.W, tc.g[k].tmpl.H>>
           st == store(tc.cache, key, tc.g[k].built)
       IN tc' = [tc EXCEPT !.cache = st[1], !.g[k].base = st[2], !.g[k].pc = "scaled"]
    /\ UNCHANGED <<fsmVars, uiVars, bd, ref, hist, sg, ms, nc>>

\* getScaledTemplatePrecompFromBase: factor == 1.0 returns base; w < 2 || h < 2
\* returns nil; RLock, pc := tmplCacheByDim[key], RUnlock; a hit returns, a
\* miss builds a new precomp
ScaledLookup(k) ==
    /\ tc.g[k].pc = "scaled"
    /\ LET g == tc.g[k]
           w == scaledSize(g.base.W, g.factor)
           h == scaledSize(g.base.H, g.factor)
       IN tc' = IF g.factor = 100
                THEN [tc EXCEPT !.g[k].scaled = g.base, !.g[k].pc = "done"]
                ELSE IF w < 2 \/ h < 2
                THEN [tc EXCEPT !.g[k].pc = "done"]
                ELSE IF tc.cache[<<w, h>>] # NilPrecomp
                THEN [tc EXCEPT !.g[k].scaled = tc.cache[<<w, h>>], !.g[k].pc = "done"]
                ELSE [tc EXCEPT !.g[k].built = scaledPrecomp(g.base, g.factor, k),
                                !.g[k].pc = "scaled insert"]
    /\ UNCHANGED <<fsmVars, uiVars, bd, ref, hist, sg, ms, nc>>

\* getScaledTemplatePrecompFromBase: Lock, insert unless present, Unlock, return pc
ScaledInsert(k) ==
    /\ tc.g[k].pc = "scaled insert"
    /\ LET key == <<tc.g[k].built.W, tc.g[k].built.H>>
           st == store(tc.cache, key, tc.g[k].built)
       IN tc' = [tc EXCEPT !.cache = st[1], !.g[k].scaled = st[2], !.g[k].pc = "done"]
    /\ UNCHANGED <<fsmVars, uiVars, bd, ref, hist, sg, ms, nc>>

CacheNext ==
    \/ \E k \in 1..MaxCallers : BaseLookup(k)
    \/ \E k \in 1..MaxCallers : BaseInsert(k)
    \/ \E k \in 1..MaxCallers : ScaledLookup(k)
    \/ \E k \in 1..MaxCallers : ScaledInsert(k)

\* an empty cache and the goroutines, each with a template and a factor
CacheInit ==
    /\ FsmInit /\ cfg = NilCfg
    /\ sg = NoScales
    /\ ms = NoSearch
    /\ \E rq \in [1..MaxCallers -> Templates \X Factors] :
          tc = [cache |-> EmptyCache,
                g |-> [k \in 1..MaxCallers |-> Caller(rq[k][1], rq[k][2])]]
    /\ nc = NoCall
    /\ UiInit

CacheSpec == CacheInit /\ [][CacheNext]_vars

----------------------------------------------------------------------------
(* The detection entry points (ncc.go, multi_scale.go, detect.go): one call  *)
(* after another on the template cache the calls share.                      *)

\* a call of MatchTemplateNCC
CallMatchTemplateNCC ==
    /\ nc.pc = "idle"
    /\ \E frame \in MatchFrames, tmpl \in MatchTemplates, opts \in MatchOptions :
          LET early == \/ frame.nil \/ tmpl.nil
                       \/ tmpl.W = 0 \/ tmpl.H = 0
                       \/ frame.W < tmpl.W \/ frame.H < tmpl.H
          IN nc' = Returned("MatchTemplateNCC", frame, tmpl, opts, nc.cache,
                            IF early THEN nc.cache ELSE cacheAfter(nc.cache, tmpl),
                            MatchTemplateNCC(frame, tmpl, opts, cachedPrecomp(nc.cache, tmpl)),
                            noError)
    /\ UNCHANGED <<fsmVars, uiVars, bd, ref, hist, sg, ms, tc>>

\* a call of MultiScaleMatch
CallMultiScaleMatch ==
    /\ nc.pc = "idle"
    /\ \E frame \in MatchFrames, tmpl \in MatchTemplates, opts \in MultiScaleOptions :
          \E r \in MultiScaleMatch(frame, tmpl, opts, nc.cache) :
             nc' = Returned("MultiScaleMatch", frame, tmpl, opts, nc.cache,
                            IF frame.nil THEN nc.cache ELSE cacheAfter(nc.cache, tmpl),
                            r, noError)
    /\ UNCHANGED <<fsmVars, uiVars, bd, ref, hist, sg, ms, tc>>

\* a call of DetectTemplateDetailed
CallDetectTemplateDetailed ==
    /\ nc.pc = "idle"
    /\ \E frame \in MatchFrames, tmpl \in MatchTemplates, c \in Configs :
          \E p \in DetectTemplateDetailed(frame, tmpl, c, nc.cache) :
             nc' = Returned("DetectTemplateDetailed", frame, tmpl, c, nc.cache,
                            IF frame.nil THEN nc.cache ELSE cacheAfter(nc.cache, tmpl),
                            p[1], p[2])
    /\ UNCHANGED <<fsmVars, uiVars, bd, ref, hist, sg, ms, tc>>

\* a call of DetectTemplate
CallDetectTemplate ==
    /\ nc.pc = "idle"
    /\ \E frame \in MatchFrames, tmpl \in MatchTemplates, c \in Configs :
          \E p \in DetectTemplate(frame, tmpl, c, nc.cache) :
             nc' = Returned("DetectTemplate", frame, tmpl, c, nc.cache,
                            IF frame.nil THEN nc.cache ELSE cacheAfter(nc.cache, tmpl),
                            p[1], p[2])
    /\ UNCHANGED <<fsmVars, uiVars, bd, ref, hist, sg, ms, tc>>

\* the caller is done with the result; the cache stays
NextCall ==
    /\ nc.pc = "returned"
    /\ nc' = [pc |-> "idle", cache |-> nc.cache]
    /\ UNCHANGED <<fsmVars, uiVars, bd, ref, hist, sg, ms, tc>>

MatchNext ==
    \/ CallMatchTemplateNCC
    \/ CallMultiScaleMatch
    \/ CallDetectTemplateDetailed
    \/ CallDetectTemplate
    \/ NextCall

MatchInit ==
    /\ FsmInit /\ cfg = NilCfg
    /\ sg = NoScales
    /\ ms = NoSearch
    /\ tc = NoRequests
    /\ nc = NoCall
    /\ UiInit

MatchSpec == MatchInit /\ [][MatchNext]_vars

----------------------------------------------------------------------------
(* The detector of package app in use: frames are fed to bd until it        *)
(* triggers, and it is Reset at some point and fed again, as on every entry  *)
(* into Monitoring; hist.frames holds the frames fed so far and hist.got the *)
(* results                                                                   *)

\* bd.FeedFrame(frame, t)
AppFeed ==
    /\ Len(hist.frames) < MaxAppFrames
    /\ ~bd.triggered
    /\ \E frame \in AppFrames : \E r \in appFeedFrame(bd, frame) :
          /\ bd' = r[1]
          /\ hist' = [hist EXCEPT !.frames = Append(@, frame),
                                  !.got = Append(@, r[2])]
    /\ UNCHANGED <<fsmVars, captureVars, uiVars, ref>>

\* bd.Reset()
AppReset ==
    /\ hist.resets < MaxResets
    /\ hist.frames # <<>>
    /\ bd' = appReset(bd)
    /\ hist' = [hist EXCEPT !.resets = @ + 1, !.wasTriggered = bd.triggered]
    /\ UNCHANGED <<fsmVars, captureVars, uiVars, ref>>

AppDetectorNext ==
    \/ AppFeed
    \/ AppReset

AppDetectorSpec == DetectorInit /\ [][AppDetectorNext]_vars

----------------------------------------------------------------------------
(* A monitoring session whose region of interest changes size: the frames   *)
(* fed are one row high and one or two pixels wide, as the region is when   *)
(* it is clamped at the edge of the captured frame.  Every pixel is bright   *)
(* enough for a frame compared with zeroed buffers to be a candidate, so    *)
(* that the window of a session holds numerators over one size only.        *)

SizedFrames ==
    {<<Gray(50), Gray(50)>>, <<Gray(50)>>, <<Gray(60), Gray(60)>>, <<Gray(60)>>}

\* bd.FeedFrame(frame, t) for a frame of either size, and the same call on ref
FeedSized ==
    /\ Len(hist.frames) < MaxFrames
    /\ \E frame \in SizedFrames :
          /\ bd' = DetectorFeedFrame(bd, frame)[1]
          /\ ref' = DetectorFeedFrame(ref, frame)[1]
          /\ hist' = [hist EXCEPT
                !.frames = Append(@, frame),
                !.got = Append(@, DetectorFeedFrame(bd, frame)[2]),
                !.want = Append(@, DetectorFeedFrame(ref, frame)[2]),
                !.quiet = @ /\ (hist.frames = <<>>
                                 \/ Within(hist.frames[Len(hist.frames)], frame))]
    /\ UNCHANGED <<fsmVars, captureVars, uiVars>>

ResizeNext ==
    \/ FeedSized
    \/ ResetDetector

ResizeSpec == DetectorInit /\ [][ResizeNext]_vars

----------------------------------------------------------------------------
(* The region of interest: a call of ExtractROI *)

\* roi, rect, err := images.ExtractROI(frame, localX, localY, cfg.ROISizePx)
CallExtractROI ==
    /\ roi.pc = "idle"
    /\ \E frame \in RoiFrames, cx \in RoiCoords, cy \in RoiCoords, size \in RoiSizes :
          roi' = [pc |-> "returned", frame |-> frame, cx |-> cx, cy |-> cy,
                  size |-> size, res |-> ExtractROI(frame, cx, cy, size)]
    /\ UNCHANGED <<fsmVars, captureVars, bd, ref, hist, fp, fw>>

RoiNext == CallExtractROI

\* no call of ExtractROI has been made
RoiInit == Init /\ cfg = NilCfg

RoiSpec == RoiInit /\ [][RoiNext]_vars

----------------------------------------------------------------------------
(* The FSM presenter between the FSM's worker and the UI loop *)

\* the listener calls p.OnState(next): append reads p.pending
OnStateRead ==
    /\ fp.on = "idle"
    /\ ~fp.stopped
    /\ Len(fp.reported) < MaxReports
    /\ \E s \in reportedAfter(lastReported(fp)) :
          fp' = [fp EXCEPT !.on = "append", !.onOld = fp.pending, !.onS = s,
                           !.reported = Append(@, s)]
    /\ UNCHANGED <<fsmVars, captureVars, bd, ref, hist, roi, fw>>

\* p.pending = append(...): the appended slice is stored
OnStateStore ==
    /\ fp.on = "append"
    /\ fp' = [fp EXCEPT !.on = "idle", !.pending = Append(fp.onOld, fp.onS)]
    /\ UNCHANGED <<fsmVars, captureVars, bd, ref, hist, roi, fw>>

\* the FSM makes no further transition
FsmStops ==
    /\ fp.on = "idle"
    /\ ~fp.stopped
    /\ fp.reported # <<>>
    /\ fp' = [fp EXCEPT !.stopped = TRUE]
    /\ UNCHANGED <<fsmVars, captureVars, bd, ref, hist, roi, fw>>

\* Loop.Tick calls p.Tick: "if len(p.pending) > 0" and
\* "last := p.pending[len(p.pending)-1]"
TickRead ==
    /\ fp.tk = "idle"
    /\ fp' = IF Len(fp.pending) > 0
             THEN [fp EXCEPT !.tk = "truncate", !.last = fp.pending[Len(fp.pending)],
                             !.fresh = fp.stopped]
             ELSE [fp EXCEPT !.shown = @ \/ fp.stopped]
    /\ UNCHANGED <<fsmVars, captureVars, bd, ref, hist, roi, fw>>

\* p.pending = p.pending[:0]
TickTruncate ==
    /\ fp.tk = "truncate"
    /\ fp' = [fp EXCEPT !.tk = "reflect", !.pending = <<>>]
    /\ UNCHANGED <<fsmVars, captureVars, bd, ref, hist, roi, fw>>

\* "if last != p.latest { p.latest = last; p.view.SetStateLabel(...) }", and
\* Tick returns
TickReflect ==
    /\ fp.tk = "reflect"
    /\ fp' = [fp EXCEPT !.tk = "idle",
                        !.latest = fp.last,
                        !.label = IF fp.last # fp.latest THEN StateLabel(fp.last) ELSE @,
                        !.shown = @ \/ fp.fresh]
    /\ UNCHANGED <<fsmVars, captureVars, bd, ref, hist, roi, fw>>

PresenterNext ==
    \/ OnStateRead
    \/ OnStateStore
    \/ FsmStops
    \/ TickRead
    \/ TickTruncate
    \/ TickReflect

\* app.Run has made the presenter and registered the listener; the FSM is in Halt
PresenterInit == Init /\ cfg = NilCfg

PresenterSpec == PresenterInit /\ [][PresenterNext]_vars

----------------------------------------------------------------------------
(* The focus watcher between the FSM's worker, its polling goroutines, the   *)
(* user and the window system                                                *)

\* the other variables
fwOthers == <<fsmVars, captureVars, bd, ref, hist, roi, fp>>

\* the user halts the machine or asks it to wait for the focus: EventHalt()
\* and EventAwaitFocus() of the capture presenter, which block on a full
\* channel
UserSends ==
    /\ ~fw.panicked
    /\ fw.user < MaxUserEvents
    /\ Len(fw.events) < QueueCap
    /\ \/ fw' = [fw EXCEPT !.events = Append(@, "evtHalt"), !.user = @ + 1]
       \/ /\ fw.awaits < MaxAwaits
          /\ fw' = [fw EXCEPT !.events = Append(@, "evtAwaitFocus"), !.user = @ + 1,
                              !.awaits = @ + 1]
    /\ UNCHANGED fwOthers

\* another window comes to the foreground
TitleChanges ==
    /\ ~fw.panicked
    /\ \E t \in Titles \ {fw.title} : fw' = [fw EXCEPT !.title = t]
    /\ UNCHANGED fwOthers

\* the worker receives an event; on a transition the listener calls
\* focusWatcher.OnState(prev, next), which runs start, or stop up to its test
WorkerReceives ==
    /\ ~fw.panicked
    /\ fw.worker = "idle"
    /\ fw.events # <<>>
    /\ LET r == fsmStep(fw.state, Head(fw.events))
           w == [fw EXCEPT !.events = Tail(@), !.state = r[1]]
       IN fw' = IF ~r[2] THEN w
                ELSE IF r[1] = StateWaitingFocus
                     THEN [start(w) EXCEPT !.session = @ + 1]
                ELSE [w EXCEPT !.worker = stopLoad(w, "closing", "idle")]
    /\ UNCHANGED fwOthers

\* the worker in stop: close(w.done); w.running.Store(false)
WorkerCloses ==
    /\ ~fw.panicked
    /\ fw.worker = "closing"
    /\ fw' = [stopClose(fw) EXCEPT !.worker = "idle"]
    /\ UNCHANGED fwOthers

\* loop: "case <-w.done: return", on the channel the select was entered with
PollerReturns(g) ==
    /\ ~fw.panicked
    /\ fw.pollers[g].pc = "select"
    /\ fw.pollers[g].done \in fw.closed
    /\ fw' = [fw EXCEPT !.pollers[g].pc = "exited"]
    /\ UNCHANGED fwOthers

\* loop: "case <-ticker.C: w.poll()", up to the call of EventFocusAcquired
\* or to the next select, which reads w.done again
PollerPolls(g) ==
    /\ ~fw.panicked
    /\ fw.pollers[g].pc = "select"
    /\ LET r == poll(fw)
       IN fw' = [r[1] EXCEPT !.pollers[g] =
                    IF r[2] THEN [pc |-> "sending", done |-> fw.pollers[g].done,
                                  title |-> ToLower(TrimSpace(fw.title)),
                                  last |-> fw.lastTitle]
                    ELSE [@ EXCEPT !.done = fw.done]]
    /\ UNCHANGED fwOthers

\* w.FSM.EventFocusAcquired(): the send on f.events, which blocks while the
\* channel is full
PollerSends(g) ==
    /\ ~fw.panicked
    /\ fw.pollers[g].pc = "sending"
    /\ Len(fw.events) < QueueCap
    /\ fw' = [fw EXCEPT !.events = Append(@, "evtFocusAcquired"),
                        !.sends = Append(@, [session |-> fw.session, state |-> fw.state,
                                             title |-> fw.pollers[g].title,
                                             last |-> fw.pollers[g].last]),
                        !.pollers[g].pc = "sent"]
    /\ UNCHANGED fwOthers

\* "w.fired = true" and stop up to its test
PollerFired(g) ==
    /\ ~fw.panicked
    /\ fw.pollers[g].pc = "sent"
    /\ fw' = [fw EXCEPT !.fired = TRUE,
                        !.pollers[g] = IF fw.running
                                       THEN [@ EXCEPT !.pc = "closing"]
                                       ELSE [@ EXCEPT !.pc = "select", !.done = fw.done]]
    /\ UNCHANGED fwOthers

\* the polling goroutine in stop: close(w.done); w.running.Store(false)
PollerCloses(g) ==
    /\ ~fw.panicked
    /\ fw.pollers[g].pc = "closing"
    /\ fw' = [stopClose(fw) EXCEPT !.pollers[g] = [@ EXCEPT !.pc = "select",
                                                              !.done = fw.done]]
    /\ UNCHANGED fwOthers

FocusNext ==
    \/ UserSends
    \/ TitleChanges
    \/ WorkerReceives
    \/ WorkerCloses
    \/ \E g \in 1..MaxAwaits : PollerReturns(g)
    \/ \E g \in 1..MaxAwaits : PollerPolls(g)
    \/ \E g \in 1..MaxAwaits : PollerSends(g)
    \/ \E g \in 1..MaxAwaits : PollerFired(g)
    \/ \E g \in 1..MaxAwaits : PollerCloses(g)

\* app.Run has made the watcher and registered the listener; the FSM is in Halt
FocusInit == Init /\ cfg = NilCfg

FocusSpec == FocusInit /\ [][FocusNext]_vars

----------------------------------------------------------------------------
(* Close: the application closes the FSM when it exits, while callers still  *)
(* send; no timer expires before that                                        *)

\* f.Close(): the timers are stopped and set to nil, the channel is closed
CloseFSM ==
    /\ ~cl.panicked
    /\ cl.closes < MaxCloses
    /\ cl' = [close(cl) EXCEPT !.closes = @ + 1]
    /\ searchTimer' = IF cl.closed THEN searchTimer ELSE NoTimer
    /\ cooldownTimer' = IF cl.closed THEN cooldownTimer ELSE NoTimer
    /\ UNCHANGED <<state, events, listeners, coordX, coordY, coordSet, cooldownUntil,
                   searchCb, cooldownCb, biteDetector, cfg, actions, bd, ref, hist,
                   captureVars, uiVars, pc, trPrev, trNext, li, fired, calls>>

\* a public event sender is called after Close
SendAfterClose ==
    /\ ~cl.panicked
    /\ cl.chan = "closed"
    /\ cl' = sendClosed(cl)
    /\ UNCHANGED <<state, events, listeners, coordX, coordY, coordSet, cooldownUntil,
                   searchTimer, cooldownTimer, searchCb, cooldownCb, biteDetector,
                   cfg, actions, bd, ref, hist, captureVars, uiVars, pc, trPrev,
                   trNext, li, fired, calls>>

\* "for ev := range f.events" ends on the closed and drained channel, and
\* the worker sets f.closed
LoopEnds ==
    /\ ~cl.panicked
    /\ cl.worker = "running"
    /\ cl.chan = "closed"
    /\ pc = "idle"
    /\ events = <<>>
    /\ cl' = [cl EXCEPT !.worker = "exited", !.closed = TRUE]
    /\ UNCHANGED <<state, events, listeners, coordX, coordY, coordSet, cooldownUntil,
                   searchTimer, cooldownTimer, searchCb, cooldownCb, biteDetector,
                   cfg, actions, bd, ref, hist, captureVars, uiVars, pc, trPrev,
                   trNext, li, fired, calls>>

\* the callers send while the channel is open, and the worker runs until its
\* loop ends
CloseNext ==
    \/ cl.chan = "open" /\ EventAwaitFocus
    \/ cl.chan = "open" /\ EventFocusAcquired
    \/ cl.chan = "open" /\ EventHalt
    \/ cl.chan = "open" /\ AddListener
    \/ ~cl.panicked /\ Receive
    \/ ~cl.panicked /\ Notify
    \/ ~cl.panicked /\ Return
    \/ CloseFSM
    \/ SendAfterClose
    \/ LoopEnds

\* the FSM after NewFSM, built without a configuration
CloseInit == Init /\ cfg = NilCfg

CloseSpec == CloseInit /\ [][CloseNext]_vars

----------------------------------------------------------------------------
(* Properties *)

TypeOK ==
    /\ state \in FishingState
    /\ Len(events) <= QueueCap
    /\ Len(listeners) <= MaxListeners
    /\ coordSet \in BOOLEAN
    /\ searchTimer \in NoTimer..SearchTimeout
    /\ cooldownTimer \in NoTimer..(cooldownDuration + ReelDelay)
    /\ pc \in {"idle", "notify", "stopped", "crashed"}
    /\ fired \subseteq {"cast", "reel", "move", "cast goroutine panic", "reel goroutine panic"}

\* this step is the worker receiving an event of type t
Received(t) ==
    /\ pc = "idle"
    /\ events # <<>>
    /\ Head(events).type = t
    /\ events' = Tail(events)

\* this step is the worker receiving an event
ReceivedAny == pc = "idle" /\ events # <<>> /\ events' = Tail(events)

\* a timer that is armed and has not expired
Pending(t) == t > 0

\* C1: every event enters the channel at its tail and only the worker takes
\* events out, the oldest first and only when it has finished the event before
\* (all listener calls and the nested transition included); f.state is written
\* by the worker alone, in loop() or at the end of transition().
C1_SingleSerializedWorker ==
    [][ /\ (events' # events =>
               \/ (pc = "idle" /\ events # <<>> /\ events' = Tail(events))
               \/ (\E t \in {"evtTargetAcquired", "evtTargetAcquiredAt", "evtTargetLost",
                             "evtHalt", "evtFishBite", "evtFocusAcquired", "evtAwaitFocus",
                             "evtForceCast", "evtAddListener", "evtMonitoringFrame"} :
                      /\ Len(events') = Len(events) + 1
                      /\ SubSeq(events', 1, Len(events)) = events
                      /\ events'[Len(events')].type = t))
        /\ (state' # state =>
               \/ (pc = "idle" /\ events # <<>> /\ events' = Tail(events))
               \/ (pc = "notify" /\ li > Len(listeners) /\ events' = events))
        /\ (pc = "notify" => Len(events') >= Len(events))
      ]_vars

\* C1 witness: the worker is inside a listener loop while two events wait, a
\* caller's event in front of a timer's ForceCast
C1_Witness ==
    /\ pc = "notify"
    /\ li <= Len(listeners)
    /\ Len(events) = 2
    /\ events[1] = evtHalt
    /\ events[2] = evtForceCast
    /\ searchTimer = 0

\* the event e is invalid in state s
Invalid(e, s) ==
    \/ e.type \in {"evtFishBite", "evtTargetLost"} /\ s # StateMonitoring
    \/ e.type = "evtFocusAcquired" /\ s # StateWaitingFocus
    \/ e.type = "evtAwaitFocus" /\ s # StateHalt
    \/ e.type \in {"evtTargetAcquired", "evtTargetAcquiredAt"} /\ s # StateSearching

\* C2: when the worker receives an event that is invalid for the current
\* state, the state stays as it is, no listener is called and no side effect
\* is started: the worker is back at the channel at once.
C2_InvalidEventIgnored ==
    [][ (ReceivedAny /\ Invalid(Head(events), state)) =>
            /\ state' = state
            /\ pc' = "idle"
            /\ calls' = <<>>
            /\ fired' = {}
            /\ searchTimer' = searchTimer
            /\ cooldownTimer' = cooldownTimer
      ]_vars

\* C2 witness: a bite is about to be received in WaitingFocus, with a listener registered
C2_Witness ==
    /\ state = StateWaitingFocus
    /\ pc = "idle"
    /\ events # <<>>
    /\ Head(events) = evtFishBite
    /\ Len(listeners) > 0

\* C7: when the worker receives evtHalt, in whatever state, the machine is in
\* Halt afterwards, TargetCoordinates reports ok = false, and neither the
\* search timer nor the cooldown timer is pending.
C7_HaltClears ==
    [][ Received("evtHalt") =>
            /\ state' = StateHalt
            /\ TargetCoordinates'[3] = FALSE
            /\ ~Pending(searchTimer')
            /\ ~Pending(cooldownTimer')
      ]_vars

\* C7 witness: Halt is about to be received in Cooldown, the cooldown timer
\* pending and a target locked
C7_Witness ==
    /\ state = StateCooldown
    /\ pc = "idle"
    /\ events # <<>>
    /\ Head(events) = evtHalt
    /\ Pending(cooldownTimer)
    /\ coordSet

\* the ephemeral states
Ephemeral == {StateReeling, StateCasting}

LoopDone == pc = "notify" /\ li > Len(listeners)

Pass(prev, next, k) == [i \in 1..k |-> <<listeners[i], prev, next>>]

C8_HaltLeftOnlyByAwaitFocus ==
    [][ (ReceivedAny /\ state = StateHalt /\ Head(events).type # "evtAwaitFocus") =>
            (state' = StateHalt /\ "cast" \notin fired')
      ]_vars

\* the cast key press is possible: cfg, PressKey and ParseVK are not nil
CanCast == ~cfg.nil /\ actions.PressKey /\ actions.ParseVK

\* C9 as claimed: a ForceCast received in any state moves the machine to
\* Casting and starts the cast key press.
C9_ForceCastPressesKey ==
    [][ Received("evtForceCast") => (state' = StateCasting /\ "cast" \in fired') ]_vars

\* C9 amended: a ForceCast received in any state other than Casting moves the
\* machine to Casting, and starts the cast key press only when the FSM was
\* built with a configuration and with the PressKey and ParseVK callbacks (with
\* a nil configuration no key is pressed); from Casting the machine goes on to
\* Searching, with the search timer armed, before the worker receives another
\* event.
C9_ForceCastCasts ==
    [][ /\ Received("evtForceCast") =>
              /\ state' = StateCasting
              /\ pc' = "notify"
              /\ ("cast" \in fired') = CanCast
        /\ state = StateCasting =>
              /\ pc = "notify"
              /\ Len(events') >= Len(events)
              /\ (state' # StateCasting =>
                     LoopDone /\ state' = StateSearching /\ searchTimer' = SearchTimeout)
      ]_vars

\* C9 witness: a ForceCast received in Monitoring has moved the machine to
\* Casting, with the cast key press started
C9_Witness ==
    /\ state = StateCasting
    /\ pc = "notify"
    /\ trPrev = StateMonitoring
    /\ "cast" \in fired

\* C10 as claimed: a TargetAcquiredAt received in a state other than Searching
\* neither sets nor changes the locked target.
C10_LockOnlyWhenSearching ==
    [][ (Received("evtTargetAcquiredAt") /\ state # StateSearching) =>
            TargetCoordinates' = TargetCoordinates
      ]_vars

\* C3: in the scenario Halt, AwaitFocus, FocusAcquired, TargetAcquiredAt(x,y),
\* FishBite, each event moves the machine on (Halt -> WaitingFocus ->
\* Searching -> Monitoring with (x,y) locked -> the Reeling entry action with
\* the reel started and the cooldown timer armed -> Cooldown), and once the
\* cooldown deadline has passed the machine goes Cooldown -> Casting ->
\* Searching through its own timer, no caller sending a ForceCast.
C3_FullCycle ==
    /\ [][ /\ Received("evtAwaitFocus") => state' = StateWaitingFocus
           /\ Received("evtFocusAcquired") =>
                 state' = StateSearching /\ searchTimer' = SearchTimeout
           /\ Received("evtTargetAcquiredAt") =>
                 /\ state' = StateMonitoring
                 /\ TargetCoordinates' = <<Head(events).x, Head(events).y, TRUE>>
           /\ Received("evtFishBite") =>
                 /\ state' = StateCooldown
                 /\ trPrev' = StateMonitoring
                 /\ "reel" \in fired'
                 /\ cooldownTimer' = cooldownDuration + ReelDelay
           /\ (state = StateCooldown /\ state' # StateCooldown) =>
                 /\ cooldownTimer = 0
                 /\ Received("evtForceCast")
                 /\ state' = StateCasting
           /\ (state = StateCasting /\ state' # StateCasting) => state' = StateSearching
         ]_vars
    /\ (state = StateHalt) ~> (state = StateWaitingFocus)
    /\ (state = StateWaitingFocus) ~> (state = StateSearching)
    /\ (state = StateSearching) ~> (state = StateMonitoring)
    /\ (state = StateMonitoring) ~> (state = StateCooldown)
    /\ (state = StateCooldown) ~> (state = StateCasting)
    /\ (state = StateCasting) ~> (state = StateSearching /\ Pending(searchTimer))

\* C3 witness: the machine is back in Searching after a cooldown whose
\* deadline has passed, the target of the cycle still locked
C3_Witness ==
    /\ state = StateSearching
    /\ pc = "idle"
    /\ cooldownUntil = 0
    /\ cooldownTimer = NoTimer
    /\ coordSet
    /\ Pending(searchTimer)

\* the search timeout has elapsed with the machine still in Searching
SearchTimedOut == state = StateSearching /\ searchTimer = 0

\* C4: when the search timeout elapses in Searching with no target acquired
\* and no event sent meanwhile, the timer's callback queues a ForceCast and the
\* machine goes through Casting back to Searching with the search timeout
\* armed again, no caller sending anything.
C4_SearchTimeoutCasts ==
    /\ [][ /\ (searchCb /\ ~searchCb' /\ state = StateSearching) =>
                 events' = Append(events, evtForceCast)
           /\ (SearchTimedOut /\ state' # StateSearching) =>
                 Received("evtForceCast") /\ state' = StateCasting
           /\ (state = StateCasting /\ state' # StateCasting) =>
                 state' = StateSearching /\ searchTimer' = SearchTimeout
         ]_vars
    /\ SearchTimedOut ~> (state = StateCasting)
    /\ (state = StateCasting) ~> (state = StateSearching /\ searchTimer = SearchTimeout)

\* C4 witness: the machine has come back to Searching from a cast made in
\* Searching, the search timer armed again
C4_Witness ==
    /\ state = StateSearching
    /\ pc = "notify"
    /\ trPrev = StateCasting
    /\ searchTimer = SearchTimeout
    /\ cooldownUntil = Zero
    /\ ~coordSet

\* the events the public event-sender methods put on the channel
CallerEvents ==
    {evtTargetAcquired, evtTargetLost, evtHalt, evtFishBite, evtFocusAcquired,
     evtAwaitFocus, evtForceCast}
    \cup {evtTargetAcquiredAt(c[1], c[2]) : c \in Coords}
    \cup {evtMonitoringFrame(motion) : motion \in BOOLEAN}
    \cup {evtAddListener(l) : l \in 1..MaxListeners}

\* C11 as claimed: a caller of an event-sender method never blocks: whatever
\* the number of queued events and whatever the worker is doing, the send of
\* every caller event can complete at once.
C11_SendersNeverBlock == \A e \in CallerEvents : ENABLED Send(e)

\* the cooldown deadline has passed with the machine still in Cooldown
CooldownTimedOut == state = StateCooldown /\ cooldownTimer = 0

\* C12 as claimed: once the search timeout or the cooldown deadline has passed,
\* the machine eventually leaves Searching, respectively Cooldown, for Casting,
\* also when the timer's event was dropped at a full channel: callers need send
\* nothing more for it.
C12_DroppedTimerEventRecurs ==
    /\ SearchTimedOut ~> (state # StateSearching)
    /\ CooldownTimedOut ~> (state # StateCooldown)

\* C13: whenever the worker has fully processed an event, a search timer is
\* pending only in Searching and a cooldown timer is pending only in Cooldown;
\* the step that leaves Searching drops the search timer and the step that
\* leaves Cooldown drops the cooldown timer.
C13_TimersMatchState ==
    /\ [](pc = "idle" =>
            /\ (Pending(searchTimer) => state = StateSearching)
            /\ (Pending(cooldownTimer) => state = StateCooldown))
    /\ [][ /\ (state = StateSearching /\ state' # StateSearching) => searchTimer' = NoTimer
           /\ (state = StateCooldown /\ state' # StateCooldown) => cooldownTimer' = NoTimer
         ]_vars

\* C13 witness: the machine rests in Cooldown with the cooldown timer pending,
\* the search timer of the Searching state it came through dropped
C13_Witness ==
    /\ state = StateCooldown
    /\ pc = "idle"
    /\ events = <<>>
    /\ Pending(cooldownTimer)
    /\ searchTimer = NoTimer
    /\ coordSet

\* C14 as claimed: whichever action callback panics, the process keeps running
\* and the worker's loop keeps receiving events; the step of the panic leaves
\* the FSM state and its timers as they are.
C14_CallbackPanicRecovered ==
    /\ [](pc # "crashed" /\ pc # "stopped")
    /\ [][ (ParseVKPanics \/ PressKeyPanics \/ ReelPanics \/ MoveCursorPanics) =>
              /\ state' = state
              /\ searchTimer' = searchTimer
              /\ cooldownTimer' = cooldownTimer
         ]_vars

\* cfg.MaxCastDurationSeconds of the configuration NewFSM was given (that of
\* config.DefaultConfig() when it was given none)
maxCastDuration ==
    IF cfg.nil THEN DefaultMaxCastDurationSeconds ELSE cfg.MaxCastDurationSeconds

\* the monitoring session has lasted n seconds
Lasted(n) ==
    state = StateMonitoring /\ ~biteDetector.nil /\ biteDetector.elapsed >= n * Second

\* C15: while frames keep arriving, a Monitoring session that has lasted the
\* maximum cast duration (the detector's, and the configured one) ends: the
\* frame received once the detector's limit has passed takes the machine to
\* Casting unless that very frame is a bite, whatever the motion seen before,
\* and from Casting the machine goes on to Searching.
C15_MonitoringTimeoutCasts ==
    /\ [][ (Received("evtMonitoringFrame")
              /\ Lasted(biteDetector.MaxCastDurationSeconds)
              /\ ~FeedFrame(biteDetector, Head(events).motion)[2]) =>
                 state' = StateCasting
         ]_vars
    /\ Lasted(biteDetector.MaxCastDurationSeconds) ~>
          (state = StateCasting \/ state = StateCooldown)
    /\ Lasted(maxCastDuration) ~> (state = StateCasting \/ state = StateCooldown)
    /\ (state = StateCasting /\ trPrev = StateMonitoring) ~>
          (state = StateSearching /\ Pending(searchTimer))

\* C15 witness: the machine is back in Searching from the cast that ended a
\* monitoring session at the detector's limit
C15_Witness ==
    /\ state = StateSearching
    /\ pc = "notify"
    /\ trPrev = StateCasting
    /\ ~biteDetector.nil
    /\ ~biteDetector.triggered
    /\ biteDetector.elapsed >= biteDetector.MaxCastDurationSeconds * Second

\* C16 as claimed: the FSM's detector reports the monitoring timeout exactly
\* when the elapsed monitoring time has reached the MaxCastDurationSeconds of
\* the configuration the FSM was constructed with.
C16_ConfiguredTimeout ==
    (state = StateMonitoring /\ ~biteDetector.nil) =>
        (TargetLostHeuristic(biteDetector) <=>
            biteDetector.elapsed >= maxCastDuration * Second)

\* this step feeds a frame to bd
Fed == Len(hist'.frames) = Len(hist.frames) + 1

\* the result of the last FeedFrame call on bd
Result == hist.got[Len(hist.got)]

\* C17: between two Resets FeedFrame returns true at most once: once the
\* detector has triggered, a FeedFrame call returns false and changes nothing
\* of the detector, until the next Reset.
C17_InertAfterTrigger ==
    /\ [](Cardinality({i \in DOMAIN hist.got : hist.got[i]}) <= 1)
    /\ [][ (Fed /\ bd.triggered) => (~Result' /\ bd' = bd) ]_vars
    /\ [][ (bd.triggered /\ ~bd'.triggered) => hist'.resets = hist.resets + 1 ]_vars

\* C17 witness: the detector has triggered and has been fed two more frames,
\* the last of them one with a raised pixel
C17_Witness ==
    /\ bd.triggered
    /\ \E i \in DOMAIN hist.got : hist.got[i] /\ i + 2 = Len(hist.got)
    /\ hist.frames[Len(hist.frames)] = <<Gray(50), Gray(110)>>

\* C18: as long as every frame fed since the detector was made or Reset
\* differs from the frame before it by no more than the per-pixel diff
\* threshold in every pixel, no FeedFrame call has returned true.
C18_NoTriggerBelowThreshold ==
    hist.quiet => \A i \in DOMAIN hist.got : ~hist.got[i]

\* C18 witness: MaxFrames frames have been fed, each within the threshold of
\* the one before, the last three of them all different
C18_Witness ==
    /\ hist.quiet
    /\ Len(hist.frames) = MaxFrames
    /\ hist.frames[MaxFrames] # hist.frames[MaxFrames - 1]
    /\ hist.frames[MaxFrames - 1] # hist.frames[MaxFrames - 2]
    /\ hist.frames[MaxFrames] # hist.frames[MaxFrames - 2]

\* the still frame and the frame with a pixel raised by 60
Still == <<Gray(50), Gray(50)>>
Spiked == <<Gray(50), Gray(110)>>

----------------------------------------------------------------------------
(* Scale generation *)

\* the terms MinScale, MinScale+ScaleStep, ... that are at most MaxScale
RECURSIVE Progression(_, _, _)
Progression(from, step, to) ==
    IF from > to THEN <<>> ELSE <<from>> \o Progression(from + step, step, to)

\* the first k entries of a sequence
Prefix(q, k) == IF Len(q) <= k THEN q ELSE SubSeq(q, 1, k)

\* C26: when no explicit scale list is given and MinScale > 0, ScaleStep > 0
\* and MaxScale >= MinScale, the call generates a list, which is the
\* arithmetic sequence MinScale, MinScale+ScaleStep, ... up to and including
\* MaxScale, has every factor inside [MinScale, MaxScale] and has at most 200
\* entries
C26_GeneratedScales ==
    /\ sg.pc # "panic"
    /\ sg.pc = "done" /\ sg.generated =>
          /\ Len(sg.opts.Scales) <= maxStepsCap
          /\ \A i \in 1..Len(sg.opts.Scales) :
                /\ sg.opts.Scales[i] >= sg.opts.MinScale
                /\ sg.opts.Scales[i] <= sg.opts.MaxScale
          /\ sg.opts.Scales =
               Prefix(Progression(sg.opts.MinScale, sg.opts.ScaleStep, sg.opts.MaxScale),
                      maxStepsCap)

----------------------------------------------------------------------------
(* The multi-scale search *)

\* the goroutines that have computed a match result
Evaluated == {k \in 1..Len(ms.w) : ms.w[k].evaluated}

\* C21: if a scale achieves a score >= StopOnScore (> 0), the result the
\* search returns has Found = true and a score >= StopOnScore, and once a
\* qualifying result has been received the best result never has a lower score
C21_EarlyStopResult ==
    /\ (ms.pc = "returned" /\ \E k \in Evaluated : reaches(ms.w[k].res.Score, ms.opts)) =>
          ms.best.Found /\ reaches(ms.best.Score, ms.opts)
    /\ \A j \in 1..Len(ms.received) :
          reaches(ms.received[j].Score, ms.opts) => ms.best.Score >= ms.received[j].Score


\* the goroutines that hold a slot of the pool: started and not yet past <-sem
Running == {k \in 1..Len(ms.w) : ms.w[k].pc \in {"start", "match", "claim", "send", "release"}}

\* C22: at every moment of a search the number of scale workers running at
\* the same time is at most the size of the pool, runtime.NumCPU()
C22_PoolBound == Cardinality(Running) <= ms.NumCPU

\* the pool is full with two workers and the dispatch loop waits with a third scale
C22_Witness ==
    /\ Cardinality(Running) = 2
    /\ ms.NumCPU = 2
    /\ ms.pc = "dispatch" /\ ms.i <= Len(ms.opts.Scales)
    /\ ms.opts.Scales[ms.i].positive

\* the goroutines that have claimed the early stop
Claimants == {k \in 1..Len(ms.w) : ms.w[k].claimed}

\* C23: in one search at most one worker claims the early-stop flag, the
\* claimant's result is always published (its send never blocks), and every
\* worker that starts after the flag is set skips its work: it neither
\* matches nor publishes
C23_SingleClaim ==
    /\ [](/\ Cardinality(Claimants) <= 1
          /\ \A k \in Claimants :
                /\ ms.w[k].pc = "send" => ~resultsFull(ms)
                /\ ms.w[k].pc # "send" => ms.w[k].sent
          /\ \A k \in 1..Len(ms.w) :
                ms.w[k].skipped => ~ms.w[k].evaluated /\ ~ms.w[k].sent)
    /\ [][\A k \in 1..Len(ms.w) :
            (ms.w[k].pc = "start" /\ ms.earlyStop = 1 /\ ms'.w[k].pc # "start")
               => ms'.w[k].skipped /\ ms'.w[k].pc = "release"]_vars

\* one worker has claimed and published, another reached the score and lost
\* the claim, a third started afterwards and skipped
C23_Witness ==
    \E a, b, c \in 1..Len(ms.w) :
       /\ ms.w[a].claimed /\ ms.w[a].sent
       /\ b # a /\ ms.w[b].evaluated /\ reaches(ms.w[b].res.Score, ms.opts)
       /\ ~ms.w[b].claimed /\ ms.w[b].pc = "done" /\ ~ms.w[b].sent
       /\ ms.w[c].skipped /\ ms.w[c].pc = "done"

\* the greatest of a non-empty set of scores
Highest(S) == CHOOSE x \in S : \A y \in S : y <= x

\* C24: when no evaluated scale reaches StopOnScore (or StopOnScore is 0) the
\* search has received the result of every evaluated scale and returns the
\* highest score among them, with the first received result that has that
\* score; the best result is replaced only by a strictly greater score
C24_BestOfAll ==
    /\ []((ms.pc = "returned"
             /\ ~\E k \in Evaluated : reaches(ms.w[k].res.Score, ms.opts)) =>
            /\ \A k \in Evaluated : \E j \in 1..Len(ms.received) : ms.received[j] = ms.w[k].res
            /\ ms.best.Score = Highest({ms.w[k].res.Score : k \in Evaluated} \cup {NoScore})
            /\ ms.best.Score > NoScore =>
                  \E j \in 1..Len(ms.received) :
                     /\ ms.best = ms.received[j]
                     /\ \A h \in 1..(j - 1) : ms.received[h].Score < ms.best.Score)
    /\ [][ms'.best # ms.best => ms'.best.Score > ms.best.Score]_vars

\* two scales had the highest score and the search returned the one received first
C24_Witness ==
    /\ ms.pc = "returned"
    /\ Len(ms.received) = 3
    /\ ms.received[1].Score < ms.received[2].Score
    /\ ms.received[2].Score = ms.received[3].Score
    /\ ms.received[2] # ms.received[3]
    /\ ms.best = ms.received[2]

\* C25: every search terminates: the call returns and every goroutine it
\* started finishes
C25_SearchTerminates ==
    <>(ms.pc = "returned" /\ \A k \in 1..Len(ms.w) : ms.w[k].pc \in {"none", "done"})

----------------------------------------------------------------------------
(* The template cache *)

\* the key a templatePrecomp is stored under
keyOf(p) == <<p.W, p.H>>

\* C27: whatever the interleaving of the requests, an entry of the cache is
\* stored once and never replaced, every precomputation a request returns is
\* the one stored under its key, and requests for the same template at the
\* same scale return the same precomputation, with the same statistics
C27_FirstInsertWins ==
    /\ [][\A key \in Keys : tc.cache[key] # NilPrecomp => tc'.cache[key] = tc.cache[key]]_vars
    /\ [](\A k \in 1..Len(tc.g) :
            /\ tc.g[k].base # NilPrecomp => tc.g[k].base = tc.cache[keyOf(tc.g[k].base)]
            /\ tc.g[k].scaled # NilPrecomp => tc.g[k].scaled = tc.cache[keyOf(tc.g[k].scaled)])
    /\ [](\A j, k \in 1..Len(tc.g) :
            (tc.g[j].pc = "done" /\ tc.g[k].pc = "done"
               /\ tc.g[j].tmpl = tc.g[k].tmpl /\ tc.g[j].factor = tc.g[k].factor)
              => tc.g[j].scaled = tc.g[k].scaled /\ tc.g[j].base = tc.g[k].base)

\* two goroutines built the precomputation of the same template at the same
\* scale at the same time, one stored it and both returned that one; a third
\* asked afterwards and got it from the cache
C27_Witness ==
    \E i, j, k \in 1..Len(tc.g) :
       /\ i # j /\ j # k /\ i # k
       /\ \A x \in {i, j, k} : tc.g[x].pc = "done" /\ tc.g[x].tmpl.id = "A" /\ tc.g[x].factor = 50
       /\ tc.g[i].built.by = <<i, "scaled">> /\ tc.g[i].scaled.by = <<i, "scaled">>
       /\ tc.g[j].built.by = <<j, "scaled">> /\ tc.g[j].scaled.by = <<i, "scaled">>
       /\ tc.g[k].built.by # <<k, "scaled">> /\ tc.g[k].scaled.by = <<i, "scaled">>

\* C40: the precomputation a request returns, for the template or for its
\* scaled variant, is derived from the pixels of the template requested, also
\* when another template of the same dimensions was cached before.
C40_OwnPixels ==
    \A k \in 1..Len(tc.g) :
       /\ tc.g[k].base # NilPrecomp => tc.g[k].base.tmpl = tc.g[k].tmpl.id
       /\ tc.g[k].scaled # NilPrecomp => tc.g[k].scaled.tmpl = tc.g[k].tmpl.id


----------------------------------------------------------------------------
(* The detection entry points *)

\* the call in nc was given a nil or empty frame or template
NilOrEmpty ==
    \/ nc.frame.nil \/ nc.frame.W = 0 \/ nc.frame.H = 0
    \/ nc.tmpl.nil \/ nc.tmpl.W = 0 \/ nc.tmpl.H = 0

\* C28: for a nil or empty frame or template, each of MatchTemplateNCC,
\* MultiScaleMatch, DetectTemplateDetailed and DetectTemplate returns, reports
\* not found and returns no error.
C28_NilNotFound ==
    (nc.pc # "idle" /\ NilOrEmpty) =>
        /\ nc.pc = "returned"
        /\ ~nc.res.Found
        /\ nc.err = noError


\* the two scores are equal
sameScore(a, b) == ~scoreGreater(a, b) /\ ~scoreGreater(b, a)

\* the frames of the size of f that differ from f only under the
\* transparent pixels of the template t laid at the origin of f
AlteredUnderMask(f, t) ==
    { g \in MatchFrames :
        /\ ~g.nil /\ g.W = f.W /\ g.H = f.H
        /\ \A off \in 1..(f.W * f.H) :
              g.pix[off] # f.pix[off] =>
                 /\ (off - 1) % f.W < t.W /\ (off - 1) \div f.W < t.H
                 /\ t.pix[((off - 1) \div f.W) * t.W + ((off - 1) % f.W) + 1][4] = 0 }

\* the call in nc is a MatchTemplateNCC of a template on a frame of its size,
\* the template's statistics computed from the template itself
MaskedCall ==
    /\ nc.pc = "returned" /\ nc.entry = "MatchTemplateNCC"
    /\ ~nc.frame.nil /\ ~nc.tmpl.nil /\ nc.tmpl.W > 0 /\ nc.tmpl.H > 0
    /\ nc.frame.W = nc.tmpl.W /\ nc.frame.H = nc.tmpl.H
    /\ dimKey(nc.tmpl.W, nc.tmpl.H) \notin DOMAIN nc.before

\* C29: the pixel count n of the template's mean and variance and of the
\* score is the number of template pixels with non-zero alpha, and altering
\* the frame under the transparent pixels of the template does not change
\* the score.
C29_TransparentExcluded ==
    MaskedCall =>
        /\ cachedPrecomp(nc.before, nc.tmpl).n = opaqueCount(nc.tmpl)
        /\ \A g \in AlteredUnderMask(nc.frame, nc.tmpl) :
              sameScore(MatchTemplateNCC(g, nc.tmpl, nc.opts,
                                         cachedPrecomp(nc.before, nc.tmpl)).Score,
                        nc.res.Score)


\* the call in nc returned a score for a frame and a template that are
\* neither nil nor empty
ValidPair ==
    /\ nc.pc = "returned"
    /\ nc.entry \in {"MatchTemplateNCC", "MultiScaleMatch", "DetectTemplateDetailed"}
    /\ ~nc.frame.nil /\ nc.frame.W > 0 /\ nc.frame.H > 0
    /\ ~nc.tmpl.nil /\ nc.tmpl.W > 0 /\ nc.tmpl.H > 0

\* -1 <= score <= 1
inRange(s) == s.D2 > 0 /\ s.N * s.N <= s.D2

\* no window of the frame f gets a score from the template statistics tp: the
\* template does not fit, or it is constant and no window equals it, or it
\* varies and every window has variance zero
NoWindowScored(f, tp) ==
    \/ f.W < tp.W \/ f.H < tp.H
    \/ \A x \in 0..(f.W - tp.W), y \in 0..(f.H - tp.H) :
          IF varT(tp) <= 0
          THEN ~windowIs(buildGrayPrecomp(f), tp, x, y, tp.gray[1])
          ELSE windowScore(buildGrayPrecomp(f), tp, x, y).skipped

strideOne(o) == [o EXCEPT !.NCC.Stride = IF @ <= 0 THEN 1 ELSE @]

\* C35: the matcher terminates for every stride, and a stride <= 0 is
\* treated as 1 on every path: a MultiScaleMatch called with such a stride
\* returns, with a result of the same call made with stride 1.
C35_StrideDefaultsToOne ==
    (nc.pc # "idle" /\ nc.entry = "MultiScaleMatch") =>
        /\ nc.pc = "returned"
        /\ nc.res \in MultiScaleMatch(nc.frame, nc.tmpl, strideOne(nc.opts), nc.before)

----------------------------------------------------------------------------
(* The detector of package app *)

\* the last step fed bd a frame that was compared with the previous one
AppCompared == bd.frameCnt >= 1 /\ Len(hist'.frames) = Len(hist.frames) + 1

\* the rolling window of a detector: its samples, write index and count
windowOf(b) == <<b.window, b.wIdx, b.wCount>>

\* C34: a candidate frame that does not trigger leaves the rolling window
\* (samples, write index, count) as it is, and the first frame after it that
\* is not a candidate is written to the window.
C34_WindowFrozenInRun ==
    [][AppCompared =>
          /\ (bd'.prevCandidate /\ ~bd'.triggered) => windowOf(bd') = windowOf(bd)
          /\ (bd.prevCandidate /\ ~bd'.prevCandidate) =>
                windowOf(bd') = windowOf(pushWindow(bd,
                    sumPrev(bd, Luminances(hist'.frames[Len(hist'.frames)]))))]_vars

\* a run of two candidate frames has ended with a still frame: the window
\* holds the samples of the frames before the run and of the still frame
C34_Witness ==
    /\ Len(hist.frames) >= 5
    /\ hist.resets = 0
    /\ ~bd.triggered /\ ~bd.prevCandidate /\ bd.wCount = Len(hist.frames) - 3
    /\ bd.window[bd.wCount] = 0

----------------------------------------------------------------------------
(* A session with frames of two sizes *)

\* the last frame fed differs in size from the one before it in the session,
\* and no frame of the session had triggered before it
SizeChanged ==
    LET k == Len(hist.frames)
    IN /\ k >= 2
       /\ Len(hist.frames[k]) # Len(hist.frames[k - 1])
       /\ \A i \in 1..(k - 1) : ~hist.got[i]

\* C39: a frame whose size differs from the previous frame's is handled like
\* the first frame of a session: it does not trigger, and the previous-frame
\* and EMA buffers hold its luminances after the call.
C39_ResizeReinitialises ==
    SizeChanged =>
        /\ ~hist.got[Len(hist.frames)]
        /\ ~bd.triggered
        /\ bd.prev = Luminances(hist.frames[Len(hist.frames)])
        /\ bd.ema = Luminances(hist.frames[Len(hist.frames)])

----------------------------------------------------------------------------
(* Timer events that arrive late *)

\* C37: every ForceCast of the application is queued by the search timer or
\* the cooldown timer; one that the worker receives after the machine has left
\* Searching and Cooldown, the periods that arm these timers, makes no
\* transition and starts no cast key press.
C37_StaleTimerCastIgnored ==
    [][ (Received("evtForceCast") /\ state \notin {StateSearching, StateCooldown}) =>
            (state' = state /\ "cast" \notin fired')
      ]_vars

----------------------------------------------------------------------------
(* The region of interest *)

\* C33: for every non-nil frame, centre and size, the rectangle ExtractROI
\* returns lies inside the frame's bounds and is at least 1x1.
C33_RoiInsideFrame ==
    (roi.pc = "returned" /\ ~roi.frame.nil) =>
        /\ In(roi.res.rect, roi.frame.Rect)
        /\ Dx(roi.res.rect) >= 1
        /\ Dy(roi.res.rect) >= 1

----------------------------------------------------------------------------
(* The FSM presenter *)

\* C36: once the FSM has stopped transitioning and a Tick that began after
\* that has returned, the label of the view shows the state the FSM reported
\* last, whatever the interleaving of OnState and Tick was.
C36_LabelShowsLastState ==
    fp.shown => fp.label = StateLabel(lastReported(fp))

----------------------------------------------------------------------------
(* The focus watcher *)

\* C31: every FocusAcquired the watcher sends is sent for a foreground title
\* that equals the selected title, trimmed and in small letters, and differs
\* from the title the watcher saw before, and no two of them are sent in the
\* same stay of the FSM in WaitingFocus.
C31_FiresOncePerSession ==
    /\ \A i \in 1..Len(fw.sends) :
          /\ fw.sends[i].title = Selected
          /\ fw.sends[i].last # fw.sends[i].title
    /\ \A i, j \in 1..Len(fw.sends) :
          (/\ i # j
           /\ fw.sends[i].state = StateWaitingFocus
           /\ fw.sends[j].state = StateWaitingFocus) =>
              fw.sends[i].session # fw.sends[j].session

\* C38: the done channel of a start is closed at most once, whatever the
\* interleaving of the polling goroutine's stop (after it fired) with the
\* listener's stop (when the FSM leaves WaitingFocus): no close of a closed
\* channel is reached.
C38_DoneClosedOnce == ~fw.panicked

----------------------------------------------------------------------------
(* Close *)

\* C32: once Close was called, the worker's loop ends when the buffered
\* events are handled, and an event sent through a public event sender is
\* ignored: the call neither changes the state or the channel nor panics.
C32_SendAfterCloseIgnored ==
    [][ /\ cl'.late # cl.late => (state' = state /\ events' = events /\ ~cl'.panicked)
        /\ cl.worker = "exited" => (state' = state /\ events' = events)
      ]_vars

====
